---- MODULE Spec2Model ----
(***************************************************************************)
(* A model of the GROMACS command front end of gromacsagent:               *)
(*   gmx_validation.py   GromacsLexer, GromacsParser (PLY LALR(1) tables   *)
(*                       and PLY's run-time error recovery),               *)
(*                       GromacsCommandValidator, parse_gromacs_command,   *)
(*                       validate_gromacs_sequence                         *)
(*   gromacs_ifl_agent.py  IFLAgent.run_agent, the feedback loop           *)
(* A Python str is a sequence of characters: a TLA+ string (TLC evaluates   *)
(* Len, SubSeq, Head and \o on strings), or a tuple of characters when it  *)
(* holds a character no TLA+ string can hold.  Other Python values are     *)
(* tagged records.                                                         *)
(***************************************************************************)
EXTENDS Integers, Sequences, FiniteSets, TLC

VARIABLES
    pc,             \* position of the modelled caller / loop
    cmd,            \* command_string handed to parse_gromacs_command
    nwords,         \* number of words the caller has put into cmd
    results,        \* validate flag -> value returned by parse_gromacs_command
    lexpos,         \* GromacsLexer.tokenize: position of the lexer in cmd (from 1)
    lineno,         \* the lexer's line counter
    tokens,         \* GromacsLexer.tokenize: the list tokens
    lexlog,         \* what the lexer did with each stretch of cmd it consumed
    parsed_command, \* argument of GromacsCommandValidator.validate
    verdict,        \* value returned by GromacsCommandValidator.validate
    command_list,   \* argument of validate_gromacs_sequence
    step_i,         \* validate_gromacs_sequence: index i of the stage loop
    last_step_found_idx,
    identified_steps_in_order,
    seq_result,     \* value returned (or exception raised) by validate_gromacs_sequence
    retry_count,    \* run_agent: loop variable
    feedback_history,
    all_commands_valid,
    final_generated_commands,
    generated_cmds_list,
    cmd_idx,        \* run_agent: position of the inner for loop
    current_attempt_valid,
    current_attempt_feedback,
    temp_generated_commands,
    current_task_template, \* the prompt handed to manager_agent.run
    provider,       \* args.provider
    model_calls,    \* number of calls of manager_agent.run so far
    outcome         \* what run_agent reports at its end

vars == <<pc, cmd, nwords, results, lexpos, lineno, tokens, lexlog, parsed_command, verdict, command_list, step_i,
          last_step_found_idx, identified_steps_in_order, seq_result,
          retry_count, feedback_history, all_commands_valid,
          final_generated_commands, generated_cmds_list, cmd_idx,
          current_attempt_valid, current_attempt_feedback,
          temp_generated_commands, current_task_template,
          provider, model_calls, outcome>>

lexVars == <<lexpos, lineno, tokens, lexlog>>
parseVars == <<cmd, nwords, results, lexVars>>
validateVars == <<parsed_command, verdict>>
seqVars == <<command_list, step_i, last_step_found_idx,
             identified_steps_in_order, seq_result>>
loopVars == <<retry_count, feedback_history, all_commands_valid,
              final_generated_commands, generated_cmds_list, cmd_idx,
              current_attempt_valid, current_attempt_feedback,
              temp_generated_commands, current_task_template,
              provider, model_calls, outcome>>

(***************************************************************************)
(* Python values                                                           *)
(***************************************************************************)
None == [t |-> "None"]
PyStr(s) == [t |-> "str", v |-> s]
PyInt(n) == [t |-> "int", v |-> n]
PyTrue == [t |-> "bool", v |-> TRUE]
PyList(l) == [t |-> "list", v |-> l]

\* F(v) with v evaluated once, however often F uses it
With(v, F(_)) == CHOOSE r \in {F(x) : x \in {v}} : TRUE

\* an exception that leaves a call in place of a value
Raised(exc) == [raised |-> exc]
IsRaised(r) == "raised" \in DOMAIN r

RECURSIVE DigitsLE(_)
\* the decimal digits of the natural number n, least significant first
\* (none for 0)
DigitsLE(n) == IF n = 0 THEN <<>> ELSE <<n % 10>> \o DigitsLE(n \div 10)

RECURSIVE ValLE(_, _)
\* the number whose digits, least significant first, are d[i], d[i + 1], ...
ValLE(d, i) == IF i > Len(d) THEN 0 ELSE d[i] + 10 * ValLE(d, i + 1)

Reverse(s) == [i \in 1..Len(s) |-> s[Len(s) + 1 - i]]

\* A float is an IEEE 754 binary64 value.  A finite one is held as repr
\* writes it: the sign, the decimal digits of its shortest repr (the most
\* significant first, no zero at either end, none for 0.0 and -0.0) and the
\* power of ten e of the last digit, so that two records are equal exactly
\* when the two floats are the same value with the same sign.
Float(neg, digits, e) == [t |-> "float", neg |-> neg, digits |-> digits, e |-> e]

\* the float whose shortest repr is m * 10^e, m an integer that does not
\* end with a zero
PyFloat(m, e) == Float(m < 0, Reverse(DigitsLE(IF m < 0 THEN 0 - m ELSE m)), e)

\* -0.0: a value of its own (repr tells it from 0.0) that == takes for 0.0
PyNegZero == Float(TRUE, <<>>, 0)

\* float('inf') and float('-inf')
PyInf(neg) == [t |-> "float", inf |-> TRUE, neg |-> neg]

IsInf(x) == "inf" \in DOMAIN x

\* the digits of a finite float as an integer, with its sign
Mantissa(x) ==
    IF x.neg THEN 0 - ValLE(Reverse(x.digits), 1) ELSE ValLE(Reverse(x.digits), 1)

\* -x for a float x
FloatNeg(x) == [x EXCEPT !.neg = ~x.neg]

(***************************************************************************)
(* Characters.  A character a TLA+ string can hold (the printable ASCII     *)
(* characters but the grave accent, and \t, \n, \f, \r) is the string of    *)
(* that one character.  Any other character is the name of its code point, *)
(* "U+" and its four to six hexadecimal digits in capitals, as in "U+00C9" *)
(* and "U+0663": a string of more than one character.  A text with such a  *)
(* character is a tuple of characters, <<"1", ".", "U+0663">>; any other   *)
(* text is a string.  The tables are those of Unicode 14.0.0, which Python *)
(* 3.11 is built with.                                                     *)
(***************************************************************************)
Ch(s, i) == IF i >= 1 /\ i <= Len(s) THEN Head(SubSeq(s, i, i)) ELSE ""

\* the empty text of the kind of s: a text joined to it is of that kind
Like(s) == SubSeq(s, 1, 0)

\* s is a tuple of characters
IsTuple(s) == ToString(Like(s)) = "<<>>"

\* s holds a character that no string holds
IsWide(s) == \E i \in 1..Len(s) : Len(Ch(s, i)) > 1

\* the characters of s in one string
RECURSIVE Flat(_)
Flat(s) ==
    IF Len(s) = 0 THEN ""
    ELSE IF Len(s) = 1 THEN Head(s)
    ELSE Flat(SubSeq(s, 1, Len(s) \div 2)) \o Flat(SubSeq(s, Len(s) \div 2 + 1, Len(s)))

\* the text s in the form texts are kept in: what is cut from a tuple is a
\* string when all its characters fit one
Text(s) == IF IsTuple(s) /\ ~IsWide(s) THEN Flat(s) ELSE s

\* a + b for two texts
Concat(a, b) == IF IsTuple(a) \/ ~IsTuple(b) THEN a \o b ELSE (<<>> \o a) \o b

\* x in S, for a text x and a set S of strings
In(x, S) == IF IsTuple(x) THEN \E y \in S : x = y ELSE x \in S

LowerLetters == "abcdefghijklmnopqrstuvwxyz"
UpperLetters == "ABCDEFGHIJKLMNOPQRSTUVWXYZ"
DigitChars == "0123456789"
HexDigits == "0123456789ABCDEF"

\* the characters from U+0020 to U+005F and from U+0061 to U+007E
Ascii32 == " !\"#$%&'()*+,-./0123456789:;<=>?@ABCDEFGHIJKLMNOPQRSTUVWXYZ[\\]^_"
Ascii97 == "abcdefghijklmnopqrstuvwxyz{|}~"

CharsOf(s) == {Ch(s, i) : i \in 1..Len(s)}

IndexIn(s, c) == CHOOSE i \in 1..Len(s) : SubSeq(s, i, i) = c

RECURSIVE HexVal(_, _)
\* the number whose hexadecimal digits are those of acc and then those of h
HexVal(h, acc) ==
    IF h = "" THEN acc
    ELSE HexVal(Tail(h), 16 * acc + IndexIn(HexDigits, Head(h)) - 1)

RECURSIVE HexText(_, _)
\* n in hexadecimal, in k digits or more
HexText(n, k) ==
    IF n = 0 /\ k <= 0 THEN ""
    ELSE HexText(n \div 16, k - 1) \o SubSeq(HexDigits, (n % 16) + 1, (n % 16) + 1)

\* ord(c)
CodePoint(c) ==
    IF Len(c) > 1 THEN HexVal(SubSeq(c, 3, Len(c)), 0)
    ELSE IF c \in CharsOf(Ascii32) THEN 31 + IndexIn(Ascii32, c)
    ELSE IF c \in CharsOf(Ascii97) THEN 96 + IndexIn(Ascii97, c)
    ELSE CASE c = "\t" -> 9 [] c = "\n" -> 10 [] c = "\f" -> 12 [] c = "\r" -> 13

\* chr(n)
CharOf(n) ==
    IF n >= 32 /\ n <= 95 THEN SubSeq(Ascii32, n - 31, n - 31)
    ELSE IF n >= 97 /\ n <= 126 THEN SubSeq(Ascii97, n - 96, n - 96)
    ELSE CASE n = 9 -> "\t" [] n = 10 -> "\n" [] n = 12 -> "\f" [] n = 13 -> "\r"
           [] OTHER -> "U+" \o HexText(n, 4)

\* n is in one of the ranges <<first, last>> of R
InRanges(n, R) == \E r \in R : r[1] <= n /\ n <= r[2]

\* The decimal digits (General_Category Nd) after ASCII come in runs of ten,
\* from the digit 0 to the digit 9: the first code point of each run.
NdBlocks ==
    {1632, 1776, 1984, 2406, 2534, 2662, 2790, 2918, 3046, 3174, 3302,
     3430, 3558, 3664, 3792, 3872, 4160, 4240, 6112, 6160, 6470, 6608,
     6784, 6800, 6992, 7088, 7232, 7248, 42528, 43216, 43264, 43472, 43504,
     43600, 44016, 65296, 66720, 68912, 69734, 69872, 69942, 70096, 70384,
     70736, 70864, 71248, 71360, 71472, 71904, 72016, 72784, 73040, 73120,
     92768, 92864, 93008, 120782, 120792, 120802, 120812, 120822, 123200,
     123632, 125264, 130032}

\* [0-9] and \d: in a str pattern \d matches every decimal digit
Digits09 == CharsOf(DigitChars)
Digit == Digits09 \cup {CharOf(b + i) : b \in NdBlocks, i \in 0..9}

Letter == CharsOf(LowerLetters) \cup CharsOf(UpperLetters)
Alnum == Letter \cup Digits09
IdentStart == Letter \cup {"_"}
IdentChar == Alnum \cup {"_"}
FileChar == Alnum \cup {"_", "/", "-"}

\* the value int() and float() give a decimal digit
DigitVal(c) ==
    IF Len(c) = 1 THEN IndexIn(DigitChars, c) - 1
    ELSE With(CodePoint(c), LAMBDA n : n - CHOOSE b \in NdBlocks : b <= n /\ n <= b + 9)

\* length of the longest run of characters of class C in s starting at pos
RunLen(s, pos, C) ==
    IF pos > Len(s) THEN 0
    ELSE CHOOSE n \in 0..(Len(s) + 1 - pos) :
             /\ pos + n > Len(s) \/ Ch(s, pos + n) \notin C
             /\ \A i \in 0..(n - 1) : Ch(s, pos + i) \in C

RECURSIVE DigitsToInt(_, _, _, _)
\* value of the n decimal digits of s starting at pos, appended to acc
DigitsToInt(s, pos, n, acc) ==
    IF n = 0 THEN acc
    ELSE DigitsToInt(s, pos + 1, n - 1, acc * 10 + DigitVal(Ch(s, pos)))

RECURSIVE NatToStr(_)
NatToStr(n) ==
    IF n < 10 THEN Ch(DigitChars, n + 1)
    ELSE NatToStr(n \div 10) \o Ch(DigitChars, (n % 10) + 1)

IntStr(n) == IF n < 0 THEN "-" \o NatToStr(0 - n) ELSE NatToStr(n)

RECURSIVE DigitText(_)
\* the text of a sequence of digits
DigitText(d) ==
    IF d = <<>> THEN "" ELSE Ch(DigitChars, Head(d) + 1) \o DigitText(Tail(d))

RECURSIVE Pow10(_)
Pow10(n) == IF n = 0 THEN 1 ELSE 10 * Pow10(n - 1)

RECURSIVE Zeros(_)
\* n zeros
Zeros(n) ==
    IF n <= 0 THEN "" ELSE IF n = 1 THEN "0"
    ELSE Zeros(n \div 2) \o Zeros(n - n \div 2)

(***************************************************************************)
(* float(text): the decimal the text denotes rounded to binary64, to       *)
(* nearest with ties to even, whatever the number of its digits.  Natural  *)
(* numbers of any size are sequences of decimal digits, least significant  *)
(* first and with no zero at the most significant end (<<>> is 0).         *)
(***************************************************************************)
At(d, i) == IF i >= 1 /\ i <= Len(d) THEN d[i] ELSE 0

\* d without the zeros at its most significant end
Trim(d) ==
    SubSeq(d, 1, CHOOSE n \in 0..Len(d) :
                     /\ n = 0 \/ d[n] # 0
                     /\ \A i \in (n + 1)..Len(d) : d[i] = 0)

\* the number of zeros at the least significant end of d # 0
LowZeros(d) ==
    CHOOSE n \in 0..(Len(d) - 1) : d[n + 1] # 0 /\ \A i \in 1..n : d[i] = 0

RECURSIVE CarryRange(_, _, _, _)
\* the places lo..hi of raw with the carry c coming in: their digits and
\* the carry going out (by halves, to keep the evaluation shallow)
CarryRange(raw, lo, hi, c) ==
    IF lo = hi
    THEN [digits |-> <<(raw[lo] + c) % 10>>, carry |-> (raw[lo] + c) \div 10]
    ELSE With(CarryRange(raw, lo, (lo + hi) \div 2, c), LAMBDA low :
         With(CarryRange(raw, (lo + hi) \div 2 + 1, hi, low.carry), LAMBDA high :
              [digits |-> low.digits \o high.digits, carry |-> high.carry]))

\* the digits of the natural number whose decimal places hold the integers
\* raw[1], raw[2], ... (of any size and sign)
Carry(raw) ==
    IF raw = <<>> THEN <<>>
    ELSE With(CarryRange(raw, 1, Len(raw), 0), LAMBDA r :
              Trim(r.digits \o DigitsLE(r.carry)))

RECURSIVE SumProducts(_, _, _, _, _)
\* the sum of a[i] * b[j + 1 - i] for i from lo to hi
SumProducts(a, b, j, lo, hi) ==
    IF lo > hi THEN 0
    ELSE IF lo = hi THEN a[lo] * b[j + 1 - lo]
    ELSE SumProducts(a, b, j, lo, (lo + hi) \div 2)
         + SumProducts(a, b, j, (lo + hi) \div 2 + 1, hi)

\* a * b
BigMul(a, b) ==
    IF a = <<>> \/ b = <<>> THEN <<>>
    ELSE Carry([j \in 1..(Len(a) + Len(b) - 1) |->
                    SumProducts(a, b, j,
                                IF j + 1 - Len(b) > 1 THEN j + 1 - Len(b) ELSE 1,
                                IF j < Len(a) THEN j ELSE Len(a))])

\* a + b
BigAdd(a, b) ==
    Carry([i \in 1..(IF Len(a) > Len(b) THEN Len(a) ELSE Len(b)) |->
               At(a, i) + At(b, i)])

\* a - b, for a >= b
BigSub(a, b) == Carry([i \in 1..Len(a) |-> a[i] - At(b, i)])

\* a < b
Less(a, b) ==
    \/ Len(a) < Len(b)
    \/ /\ Len(a) = Len(b)
       /\ \E i \in 1..Len(a) : a[i] < b[i] /\ \A j \in (i + 1)..Len(a) : a[j] = b[j]

RECURSIVE BigPow(_, _)
\* b^c for a digit b
BigPow(b, c) ==
    IF c = 0 THEN <<1>>
    ELSE With(BigPow(b, c \div 2), LAMBDA h :
         With(BigMul(h, h), LAMBDA sq :
              IF c % 2 = 0 THEN sq ELSE BigMul(sq, <<b>>)))

\* 2^52 and 2^53: the mantissa n of a normal float n * 2^q is from the one
\* to below the other
Two52 == BigPow(2, 52)
Two53 == BigPow(2, 53)

\* d * 10^e / 2^q as a decimal: its digits and the power of ten of the last
InUnits(d, e, q) ==
    IF q <= 0 THEN [d |-> BigMul(d, BigPow(2, 0 - q)), e |-> e]
    ELSE [d |-> BigMul(d, BigPow(5, q)), e |-> e - q]

\* the natural number d * 10^e rounds down to
Floor(d, e) ==
    IF e >= 0 THEN [i \in 1..e |-> 0] \o d ELSE SubSeq(d, 1 - e, Len(d))

\* the natural number nearest to d * 10^e, the even one of two that are
\* equally near
RoundHalfEven(d, e) ==
    IF e >= 0 THEN Floor(d, e)
    ELSE LET r == 0 - e
             rest == \E i \in 1..(IF r - 1 < Len(d) THEN r - 1 ELSE Len(d)) : d[i] # 0
             up == \/ At(d, r) > 5
                   \/ At(d, r) = 5 /\ (rest \/ At(d, r + 1) % 2 = 1)
         IN IF up THEN BigAdd(Floor(d, e), <<1>>) ELSE Floor(d, e)

\* the exponent q of the floats n * 2^q next to v = d * 10^e > 0: the one
\* with 2^52 <= v / 2^q < 2^53, and -1074, that of the subnormal floats and
\* of the lowest normal ones, when v < 2^-1022.  With k the number of digits
\* of d, 10^(e + k - 1) <= v < 10^(e + k), and 3.321928 is a little less
\* than the binary logarithm of 10: 2^b <= v < 2^(b + 6) for the b below.
FloatExponent(d, e) ==
    LET b == ((e + Len(d) - 1) * 3321928) \div 1000000 - 1
        q == IF b - 52 < -1074 THEN -1074 ELSE b - 52
    IN With(InUnits(d, e, q), LAMBDA u :
       With(Floor(u.d, u.e), LAMBDA w :
            q + CHOOSE t \in 0..5 :
                    /\ Less(w, BigPow(2, 53 + t))
                    /\ t = 0 \/ ~Less(w, BigPow(2, 52 + t))))

\* c, in units of 10^ex, with no zero at its end: the digits and exponent
\* of a float
Decimal(c, ex) ==
    With(LowZeros(c), LAMBDA z : Float(FALSE, Reverse(SubSeq(c, z + 1, Len(c))), ex + z))

RECURSIVE ShortestFrom(_, _, _, _, _, _)
\* the decimal of j digits or more that repr gives for the float f: the
\* first j for which one of the two decimals of j digits next to f, below
\* and above, is a text float() takes to f, which are the decimals from lo
\* to hi, the ends included when the mantissa of f is even; of two such
\* decimals the one nearer to f.  f, lo and hi are in units of 10^ex.
ShortestFrom(f, lo, hi, even, ex, j) ==
    LET z == Len(f) - j
        reads(c) == /\ IF even THEN ~Less(c, lo) ELSE Less(lo, c)
                    /\ IF even THEN ~Less(hi, c) ELSE Less(c, hi)
    IN IF z <= 0 \/ \A i \in 1..z : f[i] = 0 THEN Decimal(f, ex)
       ELSE With([i \in 1..Len(f) |-> IF i <= z THEN 0 ELSE f[i]], LAMBDA below :
            With(BigAdd(below, [i \in 1..(z + 1) |-> IF i <= z THEN 0 ELSE 1]),
                 LAMBDA above :
                 IF reads(below) /\ reads(above)
                 THEN Decimal(IF Less(BigAdd(f, f), BigAdd(below, above))
                              THEN below ELSE above, ex)
                 ELSE IF reads(below) THEN Decimal(below, ex)
                 ELSE IF reads(above) THEN Decimal(above, ex)
                 ELSE ShortestFrom(f, lo, hi, even, ex, j + 1)))

\* the float n * 2^q (2^52 <= n < 2^53, or q = -1074 and 0 < n < 2^52) by
\* its shortest repr.  In units of 2^(q - 2) the float is 4n, the float
\* above it 4n + 4 and the float below it 4n - 4, or 4n - 2 when n = 2^52
\* begins a binade; float() takes to n * 2^q what lies between the points
\* half-way to the two.
ShortestRepr(n, q) ==
    With(IF q >= 2 THEN BigPow(2, q - 2) ELSE BigPow(5, 2 - q), LAMBDA unit :
    With(BigMul(BigMul(n, <<4>>), unit), LAMBDA f :
         ShortestFrom(f,
                      BigSub(f, BigMul(unit, IF n = Two52 /\ q > -1074
                                             THEN <<1>> ELSE <<2>>)),
                      BigAdd(f, BigMul(unit, <<2>>)),
                      n[1] % 2 = 0,
                      IF q >= 2 THEN 0 ELSE q - 2,
                      1)))

\* d * 10^e rounded to binary64, for d # 0 with no zero at its end: beyond
\* 10^309 every decimal is above the largest float and below 10^-324 it is
\* nearer to 0 than to the smallest float 2^-1074; a decimal of at most 15
\* digits from 10^-307 to 10^308 is the shortest repr of its float (DBL_DIG
\* is 15); elsewhere the float is n * 2^q with n the natural number nearest
\* to d * 10^e / 2^q, and it is inf from 2^1024 on
Binary64(d, e) ==
    LET k == Len(d)
    IN IF e + k - 1 > 308 THEN PyInf(FALSE)
       ELSE IF e + k - 1 < -324 THEN PyFloat(0, 0)
       ELSE IF k <= 15 /\ e + k - 1 >= -307 /\ e + k - 1 <= 307
       THEN Float(FALSE, Reverse(d), e)
       ELSE With(FloatExponent(d, e), LAMBDA q :
            With(InUnits(d, e, q), LAMBDA u :
            With(RoundHalfEven(u.d, u.e), LAMBDA n :
                 IF n = <<>> THEN PyFloat(0, 0)
                 ELSE IF q > 971 \/ (q = 971 /\ n = Two53) THEN PyInf(FALSE)
                 ELSE IF n = Two53 THEN ShortestRepr(Two52, q + 1)
                 ELSE ShortestRepr(n, q))))

\* repr(x) of a float, which str(x) and an f-string give: the digits of the
\* shortest repr, in positional notation for 1e-4 <= |x| < 1e16
FloatRepr(x) ==
    IF IsInf(x) THEN (IF x.neg THEN "-inf" ELSE "inf")
    ELSE IF x.digits = <<>> THEN (IF x.neg THEN "-0.0" ELSE "0.0")
    ELSE LET digits == DigitText(x.digits)
             k == Len(digits)
             decpt == x.e + k
             ex == IF decpt - 1 < 0 THEN 1 - decpt ELSE decpt - 1
         IN (IF x.neg THEN "-" ELSE "")
            \o (IF decpt > -4 /\ decpt <= 16
                THEN IF decpt <= 0 THEN "0." \o Zeros(0 - decpt) \o digits
                     ELSE IF decpt >= k THEN digits \o Zeros(decpt - k) \o ".0"
                     ELSE SubSeq(digits, 1, decpt) \o "." \o SubSeq(digits, decpt + 1, k)
                ELSE SubSeq(digits, 1, 1)
                     \o (IF k > 1 THEN "." \o SubSeq(digits, 2, k) ELSE "")
                     \o "e" \o (IF decpt - 1 < 0 THEN "-" ELSE "+")
                     \o (IF ex < 10 THEN "0" ELSE "") \o NatToStr(ex))

(***************************************************************************)
(* GromacsLexer                                                            *)
(***************************************************************************)
commands ==
    {"pdb2gmx", "editconf", "solvate", "grompp", "mdrun", "energy",
     "trjconv", "rms", "rmsf", "gyrate", "distance", "angle",
     "mindist", "hbond", "sasa", "cluster", "density", "potential",
     "genion", "genrestr", "make_ndx", "do_dssp", "rama"}

Extensions ==
    {"pdb", "gro", "top", "mdp", "tpr", "xtc", "trr", "edr", "cpt", "xvg",
     "ndx", "itp", "dat", "log", "out", "tng", "pqr"}

t_ignore == {" ", "\t"}

\* Each *_len operator gives the length of the text the rule's regular
\* expression matches at pos, 0 when it does not match there.

\* -[a-zA-Z][a-zA-Z0-9]*
t_FLAG_len(s, pos) ==
    IF Ch(s, pos) = "-" /\ Ch(s, pos + 1) \in Letter
    THEN 2 + RunLen(s, pos + 2, Alnum)
    ELSE 0

t_LPAREN_len(s, pos) == IF Ch(s, pos) = "(" THEN 1 ELSE 0

t_RPAREN_len(s, pos) == IF Ch(s, pos) = ")" THEN 1 ELSE 0

\* a Filename rule that takes any three letters for an extension
t_FILENAME_len_AnyExtension(s, pos) ==
    With(RunLen(s, pos, FileChar), LAMBDA n :
         IF /\ n >= 1
            /\ Ch(s, pos + n) = "."
            /\ pos + n + 3 <= Len(s)
            /\ \A i \in 1..3 : Ch(s, pos + n + i) \in Letter
         THEN n + 4
         ELSE 0)

\* [a-zA-Z0-9_/\-]+\.(pdb|gro|...): the class has no '.', so only the
\* longest run can be followed by the dot
t_FILENAME_len(s, pos) ==
    With(RunLen(s, pos, FileChar), LAMBDA n :
         IF /\ n >= 1
            /\ Ch(s, pos + n) = "."
            /\ pos + n + 3 <= Len(s)
            /\ In(SubSeq(s, pos + n + 1, pos + n + 3), Extensions)
         THEN n + 4
         ELSE 0)

\* length of the optional exponent ([eE][+-]?\d+)? at pos
ExponentLen(s, pos) ==
    IF Ch(s, pos) \in {"e", "E"}
    THEN LET sg == IF Ch(s, pos + 1) \in {"+", "-"} THEN 1 ELSE 0
             d == RunLen(s, pos + 1 + sg, Digit)
         IN IF d >= 1 THEN 1 + sg + d ELSE 0
    ELSE 0

\* -?\d+\.\d+([eE][+-]?\d+)?
t_NUMBER_len(s, pos) ==
    LET sg == IF Ch(s, pos) = "-" THEN 1 ELSE 0
    IN With(RunLen(s, pos + sg, Digit), LAMBDA d1 :
       With(RunLen(s, pos + sg + d1 + 1, Digit), LAMBDA d2 :
            IF d1 >= 1 /\ Ch(s, pos + sg + d1) = "." /\ d2 >= 1
            THEN sg + d1 + 1 + d2 + ExponentLen(s, pos + sg + d1 + 1 + d2)
            ELSE 0))

\* -?\d+
t_INTEGER_len(s, pos) ==
    LET sg == IF Ch(s, pos) = "-" THEN 1 ELSE 0
    IN With(RunLen(s, pos + sg, Digit), LAMBDA d : IF d >= 1 THEN sg + d ELSE 0)

\* a STRING rule whose bare identifiers may hold hyphens
t_STRING_len_WithHyphen(s, pos) ==
    LET c == Ch(s, pos)
    IN IF c \in {"\"", "'"}
       THEN LET n == RunLen(s, pos + 1, CharsOf(s) \ {c})
            IN IF Ch(s, pos + 1 + n) = c THEN n + 2 ELSE 0
       ELSE IF c \in IdentStart THEN 1 + RunLen(s, pos + 1, IdentChar \cup {"-"})
       ELSE 0

\* "[^"]*"|'[^']*'|[a-zA-Z_][a-zA-Z0-9_]*
t_STRING_len(s, pos) ==
    LET c == Ch(s, pos)
    IN IF c \in {"\"", "'"}
       THEN LET n == RunLen(s, pos + 1, CharsOf(s) \ {c})
            IN IF Ch(s, pos + 1 + n) = c THEN n + 2 ELSE 0
       ELSE IF c \in IdentStart THEN 1 + RunLen(s, pos + 1, IdentChar)
       ELSE 0

\* \n+
t_newline_len(s, pos) == RunLen(s, pos, {"\n"})

\* float(t.value) of the text of a NUMBER token: the digits before and
\* after the point, without the zeros at either end, times the power of ten
\* the exponent and the place of the point give
FloatOf(txt) ==
    LET sg == IF Ch(txt, 1) = "-" THEN 1 ELSE 0
        d1 == RunLen(txt, 1 + sg, Digit)
        d2 == RunLen(txt, 2 + sg + d1, Digit)
        digit(i) == DigitVal(Ch(txt, IF i <= d1 THEN sg + i ELSE sg + i + 1))
        ep == 2 + sg + d1 + d2
        hasE == ep <= Len(txt)
        esg == IF hasE /\ Ch(txt, ep + 1) \in {"+", "-"} THEN 1 ELSE 0
        ex == IF hasE
              THEN Trim([i \in 1..(Len(txt) - ep - esg) |->
                            DigitVal(Ch(txt, Len(txt) + 1 - i))])
              ELSE <<>>
        minus == hasE /\ Ch(txt, ep + 1) = "-"
    IN With(Trim([i \in 1..(d1 + d2) |-> digit(d1 + d2 + 1 - i)]), LAMBDA d :
            IF d = <<>> THEN Float(sg = 1, <<>>, 0)
            ELSE LET \* the decimal exponent of the first digit is up - down
                     up == BigAdd(IF minus THEN <<>> ELSE ex,
                                  IF Len(d) > d2 THEN DigitsLE(Len(d) - 1 - d2) ELSE <<>>)
                     down == BigAdd(IF minus THEN ex ELSE <<>>,
                                    IF Len(d) > d2 THEN <<>> ELSE DigitsLE(d2 + 1 - Len(d)))
                     x == IF Less(BigAdd(down, DigitsLE(308)), up) THEN PyInf(FALSE)
                          ELSE IF Less(BigAdd(up, DigitsLE(324)), down) THEN PyFloat(0, 0)
                          ELSE With(LowZeros(d), LAMBDA z :
                                    Binary64(SubSeq(d, z + 1, Len(d)),
                                             (IF Less(up, down)
                                              THEN 0 - ValLE(BigSub(down, up), 1)
                                              ELSE ValLE(BigSub(up, down), 1))
                                             - (Len(d) - 1) + z))
                 IN IF sg = 1 THEN FloatNeg(x) ELSE x)

\* sys.get_int_max_str_digits(): the longest text int() converts
INT_MAX_STR_DIGITS == 4300

\* int(t.value) of the text of an INTEGER token; beyond 4300 digits, the
\* zeros at the head counted and the sign not, int() raises ValueError
IntOf(txt) ==
    LET sg == IF Ch(txt, 1) = "-" THEN 1 ELSE 0
        n == DigitsToInt(txt, 1 + sg, Len(txt) - sg, 0)
    IN IF Len(txt) - sg > INT_MAX_STR_DIGITS THEN Raised("ValueError")
       ELSE PyInt(IF sg = 1 THEN 0 - n ELSE n)

Tok(type, value) == [type |-> type, value |-> value]

\* a t_STRING that takes every bare identifier but gmx for a command
t_STRING_AnyCommand(txt) ==
    IF Ch(txt, 1) = "\"" \/ Ch(txt, 1) = "'"
    THEN Tok("STRING", PyStr(SubSeq(txt, 2, Len(txt) - 1)))
    ELSE IF txt = "gmx" THEN Tok("GMX", PyStr(txt))
    ELSE Tok("COMMAND", PyStr(txt))

\* a t_STRING that strips the quotes and goes on to classify what is left
t_STRING_QuotedReclassified(txt) ==
    LET v == IF Ch(txt, 1) = "\"" \/ Ch(txt, 1) = "'"
             THEN SubSeq(txt, 2, Len(txt) - 1) ELSE txt
    IN IF v = "gmx" THEN Tok("GMX", PyStr(v))
       ELSE IF In(v, commands) THEN Tok("COMMAND", PyStr(v))
       ELSE Tok("STRING", PyStr(v))

\* the body of t_STRING: strip quotes, or reclassify a bare identifier
t_STRING(txt) ==
    IF Ch(txt, 1) = "\"" \/ Ch(txt, 1) = "'"
    THEN Tok("STRING", PyStr(SubSeq(txt, 2, Len(txt) - 1)))
    ELSE IF txt = "gmx" THEN Tok("GMX", PyStr(txt))
    ELSE IF In(txt, commands) THEN Tok("COMMAND", PyStr(txt))
    ELSE Tok("STRING", PyStr(txt))

\* the step of a rule whose function has been called on a match of n
\* characters: the token it returned, or the exception that left it
Called(n, tok) ==
    IF IsRaised(tok.value) THEN [kind |-> "raise", n |-> n, raised |-> tok.value.raised]
    ELSE [kind |-> "tok", n |-> n, tok |-> tok]

\* what the lexer does with a rule whose pattern matches n characters at its
\* position, n > 0 (step), and with the rules after it when it does not
Match(n, step(_), rest) == With(n, LAMBDA m : IF m > 0 THEN step(m) ELSE rest)

\* a lexer that emits the token of the rule with the longest match at pos
\* (the earlier rule on a tie) instead of the first rule that matches
LexAt_LongestMatch(s, pos) ==
    LET txt(n) == Text(SubSeq(s, pos, pos + n - 1))
        lens == <<t_FLAG_len(s, pos), t_LPAREN_len(s, pos), t_RPAREN_len(s, pos),
                  t_FILENAME_len(s, pos), t_NUMBER_len(s, pos),
                  t_INTEGER_len(s, pos), t_STRING_len(s, pos)>>
        best == CHOOSE k \in 1..7 :
                    /\ \A j \in 1..7 : lens[j] <= lens[k]
                    /\ \A j \in 1..(k - 1) : lens[j] < lens[k]
        n == lens[best]
    IN IF Ch(s, pos) \in t_ignore THEN [kind |-> "skip", n |-> 1]
       ELSE IF n > 0
       THEN Called(n, CASE best = 1 -> Tok("FLAG", PyStr(txt(n)))
                        [] best = 2 -> Tok("LPAREN", PyStr(txt(n)))
                        [] best = 3 -> Tok("RPAREN", PyStr(txt(n)))
                        [] best = 4 -> Tok("FILENAME", PyStr(txt(n)))
                        [] best = 5 -> Tok("NUMBER", FloatOf(txt(n)))
                        [] best = 6 -> Tok("INTEGER", IntOf(txt(n)))
                        [] best = 7 -> t_STRING(txt(n)))
       ELSE IF t_newline_len(s, pos) > 0
       THEN [kind |-> "skip", n |-> t_newline_len(s, pos)]
       ELSE [kind |-> "error", n |-> 1]

\* One step of lexer.token() at pos: the first rule of the master regular
\* expression (in definition order) that matches decides.
\* kind "tok": a token of n characters; "skip": n characters consumed with
\* no token (ignored character, newline); "error": t_error skipped one;
\* "raise": the rule's function raised on its match of n characters.
LexAt(s, pos) ==
    LET txt(n) == Text(SubSeq(s, pos, pos + n - 1))
    IN IF Ch(s, pos) \in t_ignore THEN [kind |-> "skip", n |-> 1]
       ELSE
       Match(t_FLAG_len(s, pos),
             LAMBDA n : Called(n, Tok("FLAG", PyStr(txt(n)))),
       Match(t_LPAREN_len(s, pos),
             LAMBDA n : Called(n, Tok("LPAREN", PyStr(txt(n)))),
       Match(t_RPAREN_len(s, pos),
             LAMBDA n : Called(n, Tok("RPAREN", PyStr(txt(n)))),
       Match(t_FILENAME_len(s, pos),
             LAMBDA n : Called(n, Tok("FILENAME", PyStr(txt(n)))),
       Match(t_NUMBER_len(s, pos),
             LAMBDA n : Called(n, Tok("NUMBER", FloatOf(txt(n)))),
       Match(t_INTEGER_len(s, pos),
             LAMBDA n : Called(n, Tok("INTEGER", IntOf(txt(n)))),
       Match(t_STRING_len(s, pos),
             LAMBDA n : Called(n, t_STRING(txt(n))),
       Match(t_newline_len(s, pos),
             LAMBDA n : [kind |-> "skip", n |-> n],
       [kind |-> "error", n |-> 1]))))))))

\* One call of lexer.token() that does not end at the end of the data, as
\* the caller sees it.  c holds the lexer's position and lineno and the
\* tokens returned so far (out), each with its type, value and tok.lineno
\* (the lexer's lineno when the token is matched: line, plus the newlines
\* t_newline has counted since); an exception of the function of a rule is
\* the last element of out.
LexStep(s, c) ==
    With(LexAt(s, c.pos), LAMBDA r :
         IF r.kind = "raise"
         THEN [c EXCEPT !.pos = @ + r.n, !.out = Append(@, Raised(r.raised))]
         ELSE IF r.kind = "tok"
         THEN [c EXCEPT !.pos = @ + r.n,
                        !.out = Append(@, [type |-> r.tok.type, value |-> r.tok.value,
                                           lineno |-> c.line])]
         ELSE [c EXCEPT !.pos = @ + r.n,
                        !.line = IF r.kind = "skip" /\ Ch(s, c.pos) \notin t_ignore
                                 THEN @ + r.n ELSE @])

RECURSIVE LexLoop(_, _, _)
\* up to n calls of lexer.token() from c on, until the data is used up or
\* the function of a rule has raised (by halves, to keep the evaluation
\* shallow)
LexLoop(s, c, n) ==
    IF n = 0 \/ c.pos > Len(s) \/ (c.out # <<>> /\ IsRaised(c.out[Len(c.out)])) THEN c
    ELSE IF n = 1 THEN LexStep(s, c)
    ELSE With(LexLoop(s, c, n \div 2), LAMBDA m : LexLoop(s, m, n - n \div 2))

\* what the successive calls of lexer.token() give from pos on: the tokens,
\* and after them the exception, if the function of a rule raises one; a
\* call consumes at least one character, so Len(s) calls reach the end
LexFrom(s, pos, line) ==
    LexLoop(s, [pos |-> pos, line |-> line, out |-> <<>>], Len(s)).out

\* GromacsLexer.tokenize: the list of the tokens of data, by type and
\* value, or the exception that ends the loop
tokenize(data) ==
    With(LexFrom(data, 1, 1), LAMBDA toks :
         IF toks # <<>> /\ IsRaised(toks[Len(toks)]) THEN toks[Len(toks)]
         ELSE [i \in 1..Len(toks) |-> Tok(toks[i].type, toks[i].value)])

\* str(value) of the value of a token, as an f-string writes it
ValueText(value) ==
    CASE value.t = "str" -> value.v
      [] value.t = "int" -> IntStr(value.v)
      [] value.t = "float" -> FloatRepr(value)

(***************************************************************************)
(* GromacsParser: the grammar, its LALR(1) automaton and the parse loop    *)
(***************************************************************************)
\* A Python dict is a sequence of [k, v] items with distinct keys, in
\* insertion order.
DictKeys(d) == {d[i].k : i \in 1..Len(d)}
DictKeySeq(d) == [i \in 1..Len(d) |-> d[i].k]
DictGet(d, key) == d[CHOOSE i \in 1..Len(d) : d[i].k = key].v

\* d | {key: value}: an existing key keeps its place and takes the new value
DictSet(d, key, value) ==
    IF key \in DictKeys(d)
    THEN [i \in 1..Len(d) |-> IF d[i].k = key THEN [k |-> key, v |-> value] ELSE d[i]]
    ELSE Append(d, [k |-> key, v |-> value])

RECURSIVE DictMerge(_, _)
\* {**a, **b}
DictMerge(a, b) ==
    IF b = <<>> THEN a
    ELSE DictMerge(DictSet(a, Head(b).k, Head(b).v), Tail(b))

\* The productions, numbered in the order of the p_ functions; production 0
\* is the augmented S' -> command.
\*  1 command     : GMX COMMAND options      2 command     : GMX COMMAND
\*  3 options     : option                   4 options     : options option
\*  5 option      : FLAG value               6 option      : FLAG
\*  7 value       : FILENAME                 8 value       : STRING
\*  9 value       : NUMBER                  10 value       : INTEGER
\* 11 value       : vector
\* 12 vector      : LPAREN number_list RPAREN
\* 13 number_list : number_value            14 number_list : number_list number_value
\* 15 number_value: NUMBER                  16 number_value: INTEGER
ProdName ==
    <<"command", "command", "options", "options", "option", "option",
      "value", "value", "value", "value", "value", "vector",
      "number_list", "number_list", "number_value", "number_value">>

ProdLen == <<3, 2, 1, 2, 2, 1, 1, 1, 1, 1, 1, 3, 1, 2, 1, 1>>

p_command(p) ==
    [type |-> "gromacs_command", command |-> p[2].v, options |-> p[3]]

p_command_no_options(p) ==
    [type |-> "gromacs_command", command |-> p[2].v, options |-> <<>>]

\* a p_options that merges the other way round: {**p[2], **p[1]}
p_options_EarlierWins(p) == IF Len(p) = 1 THEN p[1] ELSE DictMerge(p[2], p[1])

p_options(p) == IF Len(p) = 1 THEN p[1] ELSE DictMerge(p[1], p[2])

p_option(p) == <<[k |-> p[1].v, v |-> p[2]]>>

\* a p_option_flag_only that stores None for a flag without a value
p_option_flag_only_None(p) == <<[k |-> p[1].v, v |-> None]>>

p_option_flag_only(p) == <<[k |-> p[1].v, v |-> PyTrue]>>

p_value(p) == p[1]

p_vector(p) == p[2]

\* a p_number_list that forgets the members before the last: [p[2]]
p_number_list_KeepLast(p) ==
    IF Len(p) = 1 THEN PyList(<<p[1]>>) ELSE PyList(<<p[2]>>)

\* a p_number_list that puts a new member in front: [p[2]] + p[1]
p_number_list_Prepend(p) ==
    IF Len(p) = 1 THEN PyList(<<p[1]>>) ELSE PyList(<<p[2]>> \o p[1].v)

p_number_list(p) ==
    IF Len(p) = 1 THEN PyList(<<p[1]>>) ELSE PyList(Append(p[1].v, p[2]))

p_number_value(p) == p[1]

\* p[0] of production n called on the right-hand side values p
Reduce(n, p) ==
    CASE n = 1 -> p_command(p)
      [] n = 2 -> p_command_no_options(p)
      [] n \in {3, 4} -> p_options(p)
      [] n = 5 -> p_option(p)
      [] n = 6 -> p_option_flag_only(p)
      [] n \in 7..11 -> p_value(p)
      [] n = 12 -> p_vector(p)
      [] n \in {13, 14} -> p_number_list(p)
      [] n \in {15, 16} -> p_number_value(p)

\* The LALR(1) automaton of the grammar.  States (kernel items):
\*  0  S' -> . command
\*  1  S' -> command .
\*  2  command -> GMX . COMMAND options | GMX . COMMAND
\*  3  command -> GMX COMMAND . options | GMX COMMAND .
\*  4  command -> GMX COMMAND options . ; options -> options . option
\*  5  options -> option .
\*  6  option -> FLAG . value | FLAG .
\*  7  options -> options option .
\*  8  option -> FLAG value .
\*  9  value -> FILENAME .     10  value -> STRING .
\* 11  value -> NUMBER .       12  value -> INTEGER .
\* 13  value -> vector .
\* 14  vector -> LPAREN . number_list RPAREN
\* 15  vector -> LPAREN number_list . RPAREN ; number_list -> number_list . number_value
\* 16  number_list -> number_value .
\* 17  number_value -> NUMBER .    18  number_value -> INTEGER .
\* 19  vector -> LPAREN number_list RPAREN .
\* 20  number_list -> number_list number_value .
Shift(n) == [a |-> "shift", n |-> n]
Red(n) == [a |-> "reduce", n |-> n]
Accept == [a |-> "accept"]
NoAction == [a |-> "none"]

AfterOption == {"FLAG", "$end"}
InVector == {"RPAREN", "NUMBER", "INTEGER"}

\* action[state].get(ltype)
Action(state, ltype) ==
    CASE state = 0 -> IF ltype = "GMX" THEN Shift(2) ELSE NoAction
      [] state = 1 -> IF ltype = "$end" THEN Accept ELSE NoAction
      [] state = 2 -> IF ltype = "COMMAND" THEN Shift(3) ELSE NoAction
      [] state = 3 -> IF ltype = "$end" THEN Red(2)
                      ELSE IF ltype = "FLAG" THEN Shift(6) ELSE NoAction
      [] state = 4 -> IF ltype = "$end" THEN Red(1)
                      ELSE IF ltype = "FLAG" THEN Shift(6) ELSE NoAction
      [] state = 5 -> IF ltype \in AfterOption THEN Red(3) ELSE NoAction
      [] state = 6 -> CASE ltype \in AfterOption -> Red(6)
                        [] ltype = "FILENAME" -> Shift(9)
                        [] ltype = "STRING" -> Shift(10)
                        [] ltype = "NUMBER" -> Shift(11)
                        [] ltype = "INTEGER" -> Shift(12)
                        [] ltype = "LPAREN" -> Shift(14)
                        [] OTHER -> NoAction
      [] state = 7 -> IF ltype \in AfterOption THEN Red(4) ELSE NoAction
      [] state = 8 -> IF ltype \in AfterOption THEN Red(5) ELSE NoAction
      [] state = 9 -> IF ltype \in AfterOption THEN Red(7) ELSE NoAction
      [] state = 10 -> IF ltype \in AfterOption THEN Red(8) ELSE NoAction
      [] state = 11 -> IF ltype \in AfterOption THEN Red(9) ELSE NoAction
      [] state = 12 -> IF ltype \in AfterOption THEN Red(10) ELSE NoAction
      [] state = 13 -> IF ltype \in AfterOption THEN Red(11) ELSE NoAction
      [] state = 14 -> CASE ltype = "NUMBER" -> Shift(17)
                         [] ltype = "INTEGER" -> Shift(18)
                         [] OTHER -> NoAction
      [] state = 15 -> CASE ltype = "RPAREN" -> Shift(19)
                         [] ltype = "NUMBER" -> Shift(17)
                         [] ltype = "INTEGER" -> Shift(18)
                         [] OTHER -> NoAction
      [] state = 16 -> IF ltype \in InVector THEN Red(13) ELSE NoAction
      [] state = 17 -> IF ltype \in InVector THEN Red(15) ELSE NoAction
      [] state = 18 -> IF ltype \in InVector THEN Red(16) ELSE NoAction
      [] state = 19 -> IF ltype \in AfterOption THEN Red(12) ELSE NoAction
      [] state = 20 -> IF ltype \in InVector THEN Red(14) ELSE NoAction

\* goto[state][pname]
Goto(state, pname) ==
    CASE state = 0 /\ pname = "command" -> 1
      [] state = 3 /\ pname = "options" -> 4
      [] state = 3 /\ pname = "option" -> 5
      [] state = 4 /\ pname = "option" -> 7
      [] state = 6 /\ pname = "value" -> 8
      [] state = 6 /\ pname = "vector" -> 13
      [] state = 14 /\ pname = "number_list" -> 15
      [] state = 14 /\ pname = "number_value" -> 16
      [] state = 15 /\ pname = "number_value" -> 20

ErrorCountAfterError == 3

EndToken == Tok("$end", None)
ErrorSym(tok) == Tok("error", tok)

Last(q) == q[Len(q)]
DropLast(q, n) == SubSeq(q, 1, Len(q) - n)
LastN(q, n) == SubSeq(q, Len(q) - n + 1, Len(q))

\* The configuration of the parse loop: the state and symbol-value stacks,
\* the lookahead (None when one must be read), the pushed-back tokens, the
\* position of the lexer in the token stream, the error count, and what
\* p_error has printed.
ParseStart ==
    [statestack |-> <<0>>, symstack |-> <<None>>, lookahead |-> None,
     lookaheadstack |-> <<>>, pos |-> 1, errorcount |-> 0, printed |-> <<>>]

\* GromacsParser.p_error: prints, returns nothing
p_error(c, la) ==
    Append(c.printed,
           IF la.type = "$end" THEN "Syntax error at EOF"
           ELSE With(ValueText(la.value), LAMBDA v :
                     Like(v) \o "Syntax error at token " \o la.type \o " ('" \o v
                     \o "') at line " \o NatToStr(la.lineno)))

\* One pass of the loop of self.parser.parse(data, lexer), the LR driver with
\* its error recovery (the grammar has no error rule and p_error does not
\* resynchronise), on what the calls of lexer.token() give: the driver's
\* variables after the pass, or what it returns; an exception of the
\* lexer leaves the driver at the call.
ParseStep(toks, c) ==
    LET state == Last(c.statestack)
        fromStack == c.lookahead = None /\ c.lookaheadstack # <<>>
        fromLexer == c.lookahead = None /\ c.lookaheadstack = <<>>
        raises == fromLexer /\ c.pos <= Len(toks) /\ IsRaised(toks[c.pos])
        la == IF c.lookahead # None THEN c.lookahead
              ELSE IF fromStack THEN Last(c.lookaheadstack)
              ELSE IF c.pos <= Len(toks) THEN toks[c.pos]
              ELSE EndToken
        c1 == [c EXCEPT !.lookahead = la,
                        !.lookaheadstack = IF fromStack THEN DropLast(@, 1) ELSE @,
                        !.pos = IF fromLexer /\ @ <= Len(toks) THEN @ + 1 ELSE @]
        t == IF raises THEN NoAction ELSE Action(state, la.type)
    IN CASE raises -> [result |-> toks[c.pos], printed |-> c.printed]
         [] t.a = "shift" ->
              [c1 EXCEPT !.statestack = Append(@, t.n),
                         !.symstack = Append(@, la.value),
                         !.lookahead = None,
                         !.errorcount = IF @ > 0 THEN @ - 1 ELSE @]
         [] t.a = "reduce" ->
              LET plen == ProdLen[t.n]
                  below == DropLast(c1.statestack, plen)
                  value == Reduce(t.n, LastN(c1.symstack, plen))
              IN [c1 EXCEPT
                     !.statestack = Append(below, Goto(Last(below), ProdName[t.n])),
                     !.symstack = Append(DropLast(@, plen), value)]
         [] t.a = "accept" ->
              [result |-> Last(c1.symstack), printed |-> c1.printed]
         [] OTHER ->
              LET c2 == [c1 EXCEPT
                            !.printed = IF c1.errorcount = 0 THEN p_error(c1, la) ELSE @,
                            !.errorcount = ErrorCountAfterError]
              IN IF la.type = "$end"
                 THEN [result |-> None, printed |-> c2.printed]
                 ELSE IF Len(c2.statestack) <= 1
                 THEN \* the whole parse is rolled back: the token is discarded
                      [c2 EXCEPT !.lookahead = None,
                                 !.statestack = <<0>>,
                                 !.lookaheadstack = <<>>]
                 ELSE IF la.type # "error"
                 THEN \* push the token back and make the error symbol the lookahead
                      [c2 EXCEPT !.lookaheadstack = Append(@, la),
                                 !.lookahead = ErrorSym(la)]
                 ELSE \* no state shifts error: pop one entry
                      [c2 EXCEPT !.statestack = DropLast(@, 1),
                                 !.symstack = DropLast(@, 1)]

RECURSIVE ParseLoop(_, _, _)
\* up to n passes of the driver's loop from c on, until the driver has
\* returned or an exception has left it (by halves, to keep the evaluation
\* shallow)
ParseLoop(toks, c, n) ==
    IF n = 0 \/ "result" \in DOMAIN c THEN c
    ELSE IF n = 1 THEN ParseStep(toks, c)
    ELSE With(ParseLoop(toks, c, n \div 2), LAMBDA m : ParseLoop(toks, m, n - n \div 2))

\* GromacsParser.parse, on the parser parse_gromacs_command has just built:
\* the lexer is new and its lineno is 1.  A pass of the driver shifts a
\* token, reduces, or takes a step of the error recovery; a token is shifted
\* once and reduced through at most the five rules between a token and
\* options, and recovery pushes it back once, pops what those passes pushed
\* and discards it: within 16 passes for each token and for the end of the
\* data the driver has returned.
parse(data) ==
    With(LexFrom(data, 1, 1), LAMBDA toks :
         ParseLoop(toks, ParseStart, 16 * (Len(toks) + 1)).result)

(***************************************************************************)
(* GromacsCommandValidator                                                 *)
(***************************************************************************)
COMMAND_FLAGS_keys ==
    {"pdb2gmx", "editconf", "solvate", "grompp", "mdrun", "energy"}

COMMAND_FLAGS(command) ==
    CASE command = "pdb2gmx" ->
             {"-f", "-o", "-p", "-i", "-n", "-q", "-ff", "-water"}
      [] command = "editconf" ->
             {"-f", "-o", "-n", "-bf", "-box", "-angles", "-d", "-c", "-center"}
      [] command = "solvate" ->
             {"-cp", "-cs", "-o", "-p", "-box", "-radius"}
      [] command = "grompp" ->
             {"-f", "-c", "-r", "-p", "-n", "-o", "-t", "-maxwarn"}
      [] command = "mdrun" ->
             {"-s", "-o", "-x", "-c", "-e", "-g", "-cpi", "-cpo", "-deffnm",
              "-v", "-nt", "-ntmpi"}
      [] command = "energy" -> {"-f", "-o", "-xvg"}

\* sub in s, for Python strings
StrContains(s, sub) ==
    \E i \in 1..(Len(s) - Len(sub) + 1) : SubSeq(s, i, i + Len(sub) - 1) = sub

FlagWarning(flag, command) ==
    Like(flag) \o "Warning: '" \o flag \o "' may not be a valid flag for 'gmx "
    \o command \o "'"

Pdb2gmxNeedsF == "Warning: 'pdb2gmx' typically requires -f (input PDB file)"
GromppNeedsF == "Warning: 'grompp' requires -f (MDP file)"
GromppNeedsC == "Warning: 'grompp' requires -c (coordinate file)"
GromppNeedsP == "Warning: 'grompp' requires -p (topology file)"
MdrunNeedsSOrDeffnm == "Warning: 'mdrun' requires -s (TPR file) or -deffnm"

RECURSIVE FlagWarnings(_, _, _)
\* the loop over options.keys(), in insertion order
FlagWarnings(keys, valid_flags, command) ==
    IF keys = <<>> THEN <<>>
    ELSE (IF ~In(Head(keys), valid_flags)
          THEN <<FlagWarning(Head(keys), command)>> ELSE <<>>)
         \o FlagWarnings(Tail(keys), valid_flags, command)

\* a flag check that treats a command outside the table as accepting no flag
FlagSetWarnings_NoSkip(command, options) ==
    FlagWarnings(DictKeySeq(options),
                 IF In(command, COMMAND_FLAGS_keys) THEN COMMAND_FLAGS(command) ELSE {},
                 command)

\* a flag check that stops at the first flag it reports
FlagSetWarnings_FirstOnly(command, options) ==
    IF In(command, COMMAND_FLAGS_keys)
    THEN LET w == FlagWarnings(DictKeySeq(options), COMMAND_FLAGS(command), command)
         IN IF w = <<>> THEN w ELSE <<Head(w)>>
    ELSE <<>>

\* if command in cls.COMMAND_FLAGS: ... warnings.append(...)
FlagSetWarnings(command, options) ==
    IF In(command, COMMAND_FLAGS_keys)
    THEN FlagWarnings(DictKeySeq(options), COMMAND_FLAGS(command), command)
    ELSE <<>>

\* an mdrun rule that wants both -s and -deffnm
RequiredWarnings_MdrunBoth(command, options) ==
    LET has(f) == \E k \in DictKeys(options) : k = f
    IN IF command = "pdb2gmx"
       THEN IF ~has("-f") THEN <<Pdb2gmxNeedsF>> ELSE <<>>
       ELSE IF command = "grompp"
       THEN (IF ~has("-f") THEN <<GromppNeedsF>> ELSE <<>>)
            \o (IF ~has("-c") THEN <<GromppNeedsC>> ELSE <<>>)
            \o (IF ~has("-p") THEN <<GromppNeedsP>> ELSE <<>>)
       ELSE IF command = "mdrun"
       THEN IF ~has("-s") \/ ~has("-deffnm") THEN <<MdrunNeedsSOrDeffnm>> ELSE <<>>
       ELSE <<>>

\* the command-specific validation
RequiredWarnings(command, options) ==
    LET has(f) == \E k \in DictKeys(options) : k = f
    IN IF command = "pdb2gmx"
       THEN IF ~has("-f") THEN <<Pdb2gmxNeedsF>> ELSE <<>>
       ELSE IF command = "grompp"
       THEN (IF ~has("-f") THEN <<GromppNeedsF>> ELSE <<>>)
            \o (IF ~has("-c") THEN <<GromppNeedsC>> ELSE <<>>)
            \o (IF ~has("-p") THEN <<GromppNeedsP>> ELSE <<>>)
       ELSE IF command = "mdrun"
       THEN IF ~has("-s") /\ ~has("-deffnm") THEN <<MdrunNeedsSOrDeffnm>> ELSE <<>>
       ELSE <<>>

\* a verdict that is valid only without warnings
VerdictOf_NoWarnings(warnings) == Len(warnings) = 0

\* len(warnings) == 0 or all('Warning' in w for w in warnings)
VerdictOf(warnings) ==
    Len(warnings) = 0
    \/ \A i \in 1..Len(warnings) : StrContains(warnings[i], "Warning")

\* GromacsCommandValidator.validate: the returned (is_valid, warnings), or
\* the exception that parsed_command['type'] raises
validate(pcmd) ==
    IF pcmd = None THEN Raised("TypeError")
    ELSE IF "type" \notin DOMAIN pcmd THEN Raised("KeyError")
    ELSE IF pcmd.type # "gromacs_command"
    THEN [valid |-> FALSE, warnings |-> <<"Not a valid GROMACS command">>]
    ELSE LET command == pcmd.command
             options == pcmd.options
             warnings ==
                 FlagSetWarnings(command, options) \o RequiredWarnings(command, options)
         IN [valid |-> VerdictOf(warnings), warnings |-> warnings]

\* result['validation'] = {...}
WithValidation(result, v) ==
    [type |-> result.type, command |-> result.command,
     options |-> result.options, validation |-> v]

\* a parse_gromacs_command that validates whatever its validate argument
parse_gromacs_command_Always(command_string, validateArg) ==
    LET result == parse(command_string)
    IN IF IsRaised(result) THEN result
       ELSE IF result # None
       THEN WithValidation(result, validate(result))
       ELSE result

\* parse_gromacs_command(command_string, validate): the returned value, or
\* the exception that leaves parser.parse
parse_gromacs_command(command_string, validateArg) ==
    LET result == parse(command_string)
    IN IF IsRaised(result) THEN result
       ELSE IF result # None /\ validateArg
       THEN WithValidation(result, validate(result))
       ELSE result

(***************************************************************************)
(* validate_gromacs_sequence                                               *)
(***************************************************************************)
required_steps ==
    <<[name |-> "Generate a GROMACS topology",
       keywords |-> <<"pdb2gmx", "topology", "forcefield">>],
      [name |-> "Edit the configuration",
       keywords |-> <<"editconf", "box", "periodic">>],
      [name |-> "Solvate the protein", keywords |-> <<"solvate", "water">>],
      [name |-> "Generate mdrun input file", keywords |-> <<"grompp", "mdp">>],
      [name |-> "Run the simulation", keywords |-> <<"mdrun", "simulation">>]>>

Upper == CharsOf(UpperLetters)

\* The characters after ASCII that str.lower() changes into one other
\* character, in ranges <<first, last, step, d>>: the characters first,
\* first + step, ... up to last become the character d code points on.
LowerRanges ==
    {<<192, 214, 1, 32>>, <<216, 222, 1, 32>>, <<256, 302, 2, 1>>,
     <<306, 310, 2, 1>>, <<313, 327, 2, 1>>, <<330, 374, 2, 1>>,
     <<376, 376, 1, -121>>, <<377, 381, 2, 1>>, <<385, 385, 1, 210>>,
     <<386, 388, 2, 1>>, <<390, 390, 1, 206>>, <<391, 391, 1, 1>>,
     <<393, 394, 1, 205>>, <<395, 395, 1, 1>>, <<398, 398, 1, 79>>,
     <<399, 399, 1, 202>>, <<400, 400, 1, 203>>, <<401, 401, 1, 1>>,
     <<403, 403, 1, 205>>, <<404, 404, 1, 207>>, <<406, 406, 1, 211>>,
     <<407, 407, 1, 209>>, <<408, 408, 1, 1>>, <<412, 412, 1, 211>>,
     <<413, 413, 1, 213>>, <<415, 415, 1, 214>>, <<416, 420, 2, 1>>,
     <<422, 422, 1, 218>>, <<423, 423, 1, 1>>, <<425, 425, 1, 218>>,
     <<428, 428, 1, 1>>, <<430, 430, 1, 218>>, <<431, 431, 1, 1>>,
     <<433, 434, 1, 217>>, <<435, 437, 2, 1>>, <<439, 439, 1, 219>>,
     <<440, 440, 1, 1>>, <<444, 444, 1, 1>>, <<452, 452, 1, 2>>,
     <<453, 453, 1, 1>>, <<455, 455, 1, 2>>, <<456, 456, 1, 1>>,
     <<458, 458, 1, 2>>, <<459, 475, 2, 1>>, <<478, 494, 2, 1>>,
     <<497, 497, 1, 2>>, <<498, 500, 2, 1>>, <<502, 502, 1, -97>>,
     <<503, 503, 1, -56>>, <<504, 542, 2, 1>>, <<544, 544, 1, -130>>,
     <<546, 562, 2, 1>>, <<570, 570, 1, 10795>>, <<571, 571, 1, 1>>,
     <<573, 573, 1, -163>>, <<574, 574, 1, 10792>>, <<577, 577, 1, 1>>,
     <<579, 579, 1, -195>>, <<580, 580, 1, 69>>, <<581, 581, 1, 71>>,
     <<582, 590, 2, 1>>, <<880, 882, 2, 1>>, <<886, 886, 1, 1>>,
     <<895, 895, 1, 116>>, <<902, 902, 1, 38>>, <<904, 906, 1, 37>>,
     <<908, 908, 1, 64>>, <<910, 911, 1, 63>>, <<913, 929, 1, 32>>,
     <<931, 939, 1, 32>>, <<975, 975, 1, 8>>, <<984, 1006, 2, 1>>,
     <<1012, 1012, 1, -60>>, <<1015, 1015, 1, 1>>, <<1017, 1017, 1, -7>>,
     <<1018, 1018, 1, 1>>, <<1021, 1023, 1, -130>>, <<1024, 1039, 1, 80>>,
     <<1040, 1071, 1, 32>>, <<1120, 1152, 2, 1>>, <<1162, 1214, 2, 1>>,
     <<1216, 1216, 1, 15>>, <<1217, 1229, 2, 1>>, <<1232, 1326, 2, 1>>,
     <<1329, 1366, 1, 48>>, <<4256, 4293, 1, 7264>>,
     <<4295, 4295, 1, 7264>>, <<4301, 4301, 1, 7264>>,
     <<5024, 5103, 1, 38864>>, <<5104, 5109, 1, 8>>,
     <<7312, 7354, 1, -3008>>, <<7357, 7359, 1, -3008>>,
     <<7680, 7828, 2, 1>>, <<7838, 7838, 1, -7615>>, <<7840, 7934, 2, 1>>,
     <<7944, 7951, 1, -8>>, <<7960, 7965, 1, -8>>, <<7976, 7983, 1, -8>>,
     <<7992, 7999, 1, -8>>, <<8008, 8013, 1, -8>>, <<8025, 8031, 2, -8>>,
     <<8040, 8047, 1, -8>>, <<8072, 8079, 1, -8>>, <<8088, 8095, 1, -8>>,
     <<8104, 8111, 1, -8>>, <<8120, 8121, 1, -8>>, <<8122, 8123, 1, -74>>,
     <<8124, 8124, 1, -9>>, <<8136, 8139, 1, -86>>, <<8140, 8140, 1, -9>>,
     <<8152, 8153, 1, -8>>, <<8154, 8155, 1, -100>>, <<8168, 8169, 1, -8>>,
     <<8170, 8171, 1, -112>>, <<8172, 8172, 1, -7>>,
     <<8184, 8185, 1, -128>>, <<8186, 8187, 1, -126>>,
     <<8188, 8188, 1, -9>>, <<8486, 8486, 1, -7517>>,
     <<8490, 8490, 1, -8383>>, <<8491, 8491, 1, -8262>>,
     <<8498, 8498, 1, 28>>, <<8544, 8559, 1, 16>>, <<8579, 8579, 1, 1>>,
     <<9398, 9423, 1, 26>>, <<11264, 11311, 1, 48>>,
     <<11360, 11360, 1, 1>>, <<11362, 11362, 1, -10743>>,
     <<11363, 11363, 1, -3814>>, <<11364, 11364, 1, -10727>>,
     <<11367, 11371, 2, 1>>, <<11373, 11373, 1, -10780>>,
     <<11374, 11374, 1, -10749>>, <<11375, 11375, 1, -10783>>,
     <<11376, 11376, 1, -10782>>, <<11378, 11378, 1, 1>>,
     <<11381, 11381, 1, 1>>, <<11390, 11391, 1, -10815>>,
     <<11392, 11490, 2, 1>>, <<11499, 11501, 2, 1>>,
     <<11506, 11506, 1, 1>>, <<42560, 42604, 2, 1>>,
     <<42624, 42650, 2, 1>>, <<42786, 42798, 2, 1>>,
     <<42802, 42862, 2, 1>>, <<42873, 42875, 2, 1>>,
     <<42877, 42877, 1, -35332>>, <<42878, 42886, 2, 1>>,
     <<42891, 42891, 1, 1>>, <<42893, 42893, 1, -42280>>,
     <<42896, 42898, 2, 1>>, <<42902, 42920, 2, 1>>,
     <<42922, 42922, 1, -42308>>, <<42923, 42923, 1, -42319>>,
     <<42924, 42924, 1, -42315>>, <<42925, 42925, 1, -42305>>,
     <<42926, 42926, 1, -42308>>, <<42928, 42928, 1, -42258>>,
     <<42929, 42929, 1, -42282>>, <<42930, 42930, 1, -42261>>,
     <<42931, 42931, 1, 928>>, <<42932, 42946, 2, 1>>,
     <<42948, 42948, 1, -48>>, <<42949, 42949, 1, -42307>>,
     <<42950, 42950, 1, -35384>>, <<42951, 42953, 2, 1>>,
     <<42960, 42960, 1, 1>>, <<42966, 42968, 2, 1>>,
     <<42997, 42997, 1, 1>>, <<65313, 65338, 1, 32>>,
     <<66560, 66599, 1, 40>>, <<66736, 66771, 1, 40>>,
     <<66928, 66938, 1, 39>>, <<66940, 66954, 1, 39>>,
     <<66956, 66962, 1, 39>>, <<66964, 66965, 1, 39>>,
     <<68736, 68786, 1, 64>>, <<71840, 71871, 1, 32>>,
     <<93760, 93791, 1, 32>>, <<125184, 125217, 1, 34>>}

\* the small letter of each ASCII capital
LowerOfUpper == [c \in Upper |-> Ch(LowerLetters, IndexIn(UpperLetters, c))]

\* c.lower() of the one character c; U+0130, the capital I with a dot,
\* becomes an i and the combining dot U+0307
LowerChar(c) ==
    IF Len(c) = 1
    THEN (IF c \in Upper THEN LowerOfUpper[c] ELSE c)
    ELSE IF c = "U+0130" THEN <<"i", "U+0307">>
    ELSE With(CodePoint(c), LAMBDA n :
         LET moves(r) == r[1] <= n /\ n <= r[2] /\ (n - r[1]) % r[3] = 0
         IN IF \E r \in LowerRanges : moves(r)
            THEN Text(<<CharOf(n + (CHOOSE r \in LowerRanges : moves(r))[4])>>)
            ELSE <<c>>)

\* The cased characters that are not case-ignorable, and the
\* case-ignorable characters, in ranges <<first, last>>.
CasedRanges ==
    {<<65, 90>>, <<97, 122>>, <<170, 170>>, <<181, 181>>, <<186, 186>>,
     <<192, 214>>, <<216, 246>>, <<248, 442>>, <<444, 447>>, <<452, 659>>,
     <<661, 687>>, <<880, 883>>, <<886, 887>>, <<891, 893>>, <<895, 895>>,
     <<902, 902>>, <<904, 906>>, <<908, 908>>, <<910, 929>>, <<931, 1013>>,
     <<1015, 1153>>, <<1162, 1327>>, <<1329, 1366>>, <<1376, 1416>>,
     <<4256, 4293>>, <<4295, 4295>>, <<4301, 4301>>, <<4304, 4346>>,
     <<4349, 4351>>, <<5024, 5109>>, <<5112, 5117>>, <<7296, 7304>>,
     <<7312, 7354>>, <<7357, 7359>>, <<7424, 7467>>, <<7531, 7543>>,
     <<7545, 7578>>, <<7680, 7957>>, <<7960, 7965>>, <<7968, 8005>>,
     <<8008, 8013>>, <<8016, 8023>>, <<8025, 8025>>, <<8027, 8027>>,
     <<8029, 8029>>, <<8031, 8061>>, <<8064, 8116>>, <<8118, 8124>>,
     <<8126, 8126>>, <<8130, 8132>>, <<8134, 8140>>, <<8144, 8147>>,
     <<8150, 8155>>, <<8160, 8172>>, <<8178, 8180>>, <<8182, 8188>>,
     <<8450, 8450>>, <<8455, 8455>>, <<8458, 8467>>, <<8469, 8469>>,
     <<8473, 8477>>, <<8484, 8484>>, <<8486, 8486>>, <<8488, 8488>>,
     <<8490, 8493>>, <<8495, 8500>>, <<8505, 8505>>, <<8508, 8511>>,
     <<8517, 8521>>, <<8526, 8526>>, <<8544, 8575>>, <<8579, 8580>>,
     <<9398, 9449>>, <<11264, 11387>>, <<11390, 11492>>, <<11499, 11502>>,
     <<11506, 11507>>, <<11520, 11557>>, <<11559, 11559>>,
     <<11565, 11565>>, <<42560, 42605>>, <<42624, 42651>>,
     <<42786, 42863>>, <<42865, 42887>>, <<42891, 42894>>,
     <<42896, 42954>>, <<42960, 42961>>, <<42963, 42963>>,
     <<42965, 42969>>, <<42997, 42998>>, <<43002, 43002>>,
     <<43824, 43866>>, <<43872, 43880>>, <<43888, 43967>>,
     <<64256, 64262>>, <<64275, 64279>>, <<65313, 65338>>,
     <<65345, 65370>>, <<66560, 66639>>, <<66736, 66771>>,
     <<66776, 66811>>, <<66928, 66938>>, <<66940, 66954>>,
     <<66956, 66962>>, <<66964, 66965>>, <<66967, 66977>>,
     <<66979, 66993>>, <<66995, 67001>>, <<67003, 67004>>,
     <<68736, 68786>>, <<68800, 68850>>, <<71840, 71903>>,
     <<93760, 93823>>, <<119808, 119892>>, <<119894, 119964>>,
     <<119966, 119967>>, <<119970, 119970>>, <<119973, 119974>>,
     <<119977, 119980>>, <<119982, 119993>>, <<119995, 119995>>,
     <<119997, 120003>>, <<120005, 120069>>, <<120071, 120074>>,
     <<120077, 120084>>, <<120086, 120092>>, <<120094, 120121>>,
     <<120123, 120126>>, <<120128, 120132>>, <<120134, 120134>>,
     <<120138, 120144>>, <<120146, 120485>>, <<120488, 120512>>,
     <<120514, 120538>>, <<120540, 120570>>, <<120572, 120596>>,
     <<120598, 120628>>, <<120630, 120654>>, <<120656, 120686>>,
     <<120688, 120712>>, <<120714, 120744>>, <<120746, 120770>>,
     <<120772, 120779>>, <<122624, 122633>>, <<122635, 122654>>,
     <<125184, 125251>>, <<127280, 127305>>, <<127312, 127337>>,
     <<127344, 127369>>}

CaseIgnorableRanges ==
    {<<39, 39>>, <<46, 46>>, <<58, 58>>, <<94, 94>>, <<96, 96>>,
     <<168, 168>>, <<173, 173>>, <<175, 175>>, <<180, 180>>, <<183, 184>>,
     <<688, 879>>, <<884, 885>>, <<890, 890>>, <<900, 901>>, <<903, 903>>,
     <<1155, 1161>>, <<1369, 1369>>, <<1375, 1375>>, <<1425, 1469>>,
     <<1471, 1471>>, <<1473, 1474>>, <<1476, 1477>>, <<1479, 1479>>,
     <<1524, 1524>>, <<1536, 1541>>, <<1552, 1562>>, <<1564, 1564>>,
     <<1600, 1600>>, <<1611, 1631>>, <<1648, 1648>>, <<1750, 1757>>,
     <<1759, 1768>>, <<1770, 1773>>, <<1807, 1807>>, <<1809, 1809>>,
     <<1840, 1866>>, <<1958, 1968>>, <<2027, 2037>>, <<2042, 2042>>,
     <<2045, 2045>>, <<2070, 2093>>, <<2137, 2139>>, <<2184, 2184>>,
     <<2192, 2193>>, <<2200, 2207>>, <<2249, 2306>>, <<2362, 2362>>,
     <<2364, 2364>>, <<2369, 2376>>, <<2381, 2381>>, <<2385, 2391>>,
     <<2402, 2403>>, <<2417, 2417>>, <<2433, 2433>>, <<2492, 2492>>,
     <<2497, 2500>>, <<2509, 2509>>, <<2530, 2531>>, <<2558, 2558>>,
     <<2561, 2562>>, <<2620, 2620>>, <<2625, 2626>>, <<2631, 2632>>,
     <<2635, 2637>>, <<2641, 2641>>, <<2672, 2673>>, <<2677, 2677>>,
     <<2689, 2690>>, <<2748, 2748>>, <<2753, 2757>>, <<2759, 2760>>,
     <<2765, 2765>>, <<2786, 2787>>, <<2810, 2815>>, <<2817, 2817>>,
     <<2876, 2876>>, <<2879, 2879>>, <<2881, 2884>>, <<2893, 2893>>,
     <<2901, 2902>>, <<2914, 2915>>, <<2946, 2946>>, <<3008, 3008>>,
     <<3021, 3021>>, <<3072, 3072>>, <<3076, 3076>>, <<3132, 3132>>,
     <<3134, 3136>>, <<3142, 3144>>, <<3146, 3149>>, <<3157, 3158>>,
     <<3170, 3171>>, <<3201, 3201>>, <<3260, 3260>>, <<3263, 3263>>,
     <<3270, 3270>>, <<3276, 3277>>, <<3298, 3299>>, <<3328, 3329>>,
     <<3387, 3388>>, <<3393, 3396>>, <<3405, 3405>>, <<3426, 3427>>,
     <<3457, 3457>>, <<3530, 3530>>, <<3538, 3540>>, <<3542, 3542>>,
     <<3633, 3633>>, <<3636, 3642>>, <<3654, 3662>>, <<3761, 3761>>,
     <<3764, 3772>>, <<3782, 3782>>, <<3784, 3789>>, <<3864, 3865>>,
     <<3893, 3893>>, <<3895, 3895>>, <<3897, 3897>>, <<3953, 3966>>,
     <<3968, 3972>>, <<3974, 3975>>, <<3981, 3991>>, <<3993, 4028>>,
     <<4038, 4038>>, <<4141, 4144>>, <<4146, 4151>>, <<4153, 4154>>,
     <<4157, 4158>>, <<4184, 4185>>, <<4190, 4192>>, <<4209, 4212>>,
     <<4226, 4226>>, <<4229, 4230>>, <<4237, 4237>>, <<4253, 4253>>,
     <<4348, 4348>>, <<4957, 4959>>, <<5906, 5908>>, <<5938, 5939>>,
     <<5970, 5971>>, <<6002, 6003>>, <<6068, 6069>>, <<6071, 6077>>,
     <<6086, 6086>>, <<6089, 6099>>, <<6103, 6103>>, <<6109, 6109>>,
     <<6155, 6159>>, <<6211, 6211>>, <<6277, 6278>>, <<6313, 6313>>,
     <<6432, 6434>>, <<6439, 6440>>, <<6450, 6450>>, <<6457, 6459>>,
     <<6679, 6680>>, <<6683, 6683>>, <<6742, 6742>>, <<6744, 6750>>,
     <<6752, 6752>>, <<6754, 6754>>, <<6757, 6764>>, <<6771, 6780>>,
     <<6783, 6783>>, <<6823, 6823>>, <<6832, 6862>>, <<6912, 6915>>,
     <<6964, 6964>>, <<6966, 6970>>, <<6972, 6972>>, <<6978, 6978>>,
     <<7019, 7027>>, <<7040, 7041>>, <<7074, 7077>>, <<7080, 7081>>,
     <<7083, 7085>>, <<7142, 7142>>, <<7144, 7145>>, <<7149, 7149>>,
     <<7151, 7153>>, <<7212, 7219>>, <<7222, 7223>>, <<7288, 7293>>,
     <<7376, 7378>>, <<7380, 7392>>, <<7394, 7400>>, <<7405, 7405>>,
     <<7412, 7412>>, <<7416, 7417>>, <<7468, 7530>>, <<7544, 7544>>,
     <<7579, 7679>>, <<8125, 8125>>, <<8127, 8129>>, <<8141, 8143>>,
     <<8157, 8159>>, <<8173, 8175>>, <<8189, 8190>>, <<8203, 8207>>,
     <<8216, 8217>>, <<8228, 8228>>, <<8231, 8231>>, <<8234, 8238>>,
     <<8288, 8292>>, <<8294, 8303>>, <<8305, 8305>>, <<8319, 8319>>,
     <<8336, 8348>>, <<8400, 8432>>, <<11388, 11389>>, <<11503, 11505>>,
     <<11631, 11631>>, <<11647, 11647>>, <<11744, 11775>>,
     <<11823, 11823>>, <<12293, 12293>>, <<12330, 12333>>,
     <<12337, 12341>>, <<12347, 12347>>, <<12441, 12446>>,
     <<12540, 12542>>, <<40981, 40981>>, <<42232, 42237>>,
     <<42508, 42508>>, <<42607, 42610>>, <<42612, 42621>>,
     <<42623, 42623>>, <<42652, 42655>>, <<42736, 42737>>,
     <<42752, 42785>>, <<42864, 42864>>, <<42888, 42890>>,
     <<42994, 42996>>, <<43000, 43001>>, <<43010, 43010>>,
     <<43014, 43014>>, <<43019, 43019>>, <<43045, 43046>>,
     <<43052, 43052>>, <<43204, 43205>>, <<43232, 43249>>,
     <<43263, 43263>>, <<43302, 43309>>, <<43335, 43345>>,
     <<43392, 43394>>, <<43443, 43443>>, <<43446, 43449>>,
     <<43452, 43453>>, <<43471, 43471>>, <<43493, 43494>>,
     <<43561, 43566>>, <<43569, 43570>>, <<43573, 43574>>,
     <<43587, 43587>>, <<43596, 43596>>, <<43632, 43632>>,
     <<43644, 43644>>, <<43696, 43696>>, <<43698, 43700>>,
     <<43703, 43704>>, <<43710, 43711>>, <<43713, 43713>>,
     <<43741, 43741>>, <<43756, 43757>>, <<43763, 43764>>,
     <<43766, 43766>>, <<43867, 43871>>, <<43881, 43883>>,
     <<44005, 44005>>, <<44008, 44008>>, <<44013, 44013>>,
     <<64286, 64286>>, <<64434, 64450>>, <<65024, 65039>>,
     <<65043, 65043>>, <<65056, 65071>>, <<65106, 65106>>,
     <<65109, 65109>>, <<65279, 65279>>, <<65287, 65287>>,
     <<65294, 65294>>, <<65306, 65306>>, <<65342, 65342>>,
     <<65344, 65344>>, <<65392, 65392>>, <<65438, 65439>>,
     <<65507, 65507>>, <<65529, 65531>>, <<66045, 66045>>,
     <<66272, 66272>>, <<66422, 66426>>, <<67456, 67461>>,
     <<67463, 67504>>, <<67506, 67514>>, <<68097, 68099>>,
     <<68101, 68102>>, <<68108, 68111>>, <<68152, 68154>>,
     <<68159, 68159>>, <<68325, 68326>>, <<68900, 68903>>,
     <<69291, 69292>>, <<69446, 69456>>, <<69506, 69509>>,
     <<69633, 69633>>, <<69688, 69702>>, <<69744, 69744>>,
     <<69747, 69748>>, <<69759, 69761>>, <<69811, 69814>>,
     <<69817, 69818>>, <<69821, 69821>>, <<69826, 69826>>,
     <<69837, 69837>>, <<69888, 69890>>, <<69927, 69931>>,
     <<69933, 69940>>, <<70003, 70003>>, <<70016, 70017>>,
     <<70070, 70078>>, <<70089, 70092>>, <<70095, 70095>>,
     <<70191, 70193>>, <<70196, 70196>>, <<70198, 70199>>,
     <<70206, 70206>>, <<70367, 70367>>, <<70371, 70378>>,
     <<70400, 70401>>, <<70459, 70460>>, <<70464, 70464>>,
     <<70502, 70508>>, <<70512, 70516>>, <<70712, 70719>>,
     <<70722, 70724>>, <<70726, 70726>>, <<70750, 70750>>,
     <<70835, 70840>>, <<70842, 70842>>, <<70847, 70848>>,
     <<70850, 70851>>, <<71090, 71093>>, <<71100, 71101>>,
     <<71103, 71104>>, <<71132, 71133>>, <<71219, 71226>>,
     <<71229, 71229>>, <<71231, 71232>>, <<71339, 71339>>,
     <<71341, 71341>>, <<71344, 71349>>, <<71351, 71351>>,
     <<71453, 71455>>, <<71458, 71461>>, <<71463, 71467>>,
     <<71727, 71735>>, <<71737, 71738>>, <<71995, 71996>>,
     <<71998, 71998>>, <<72003, 72003>>, <<72148, 72151>>,
     <<72154, 72155>>, <<72160, 72160>>, <<72193, 72202>>,
     <<72243, 72248>>, <<72251, 72254>>, <<72263, 72263>>,
     <<72273, 72278>>, <<72281, 72283>>, <<72330, 72342>>,
     <<72344, 72345>>, <<72752, 72758>>, <<72760, 72765>>,
     <<72767, 72767>>, <<72850, 72871>>, <<72874, 72880>>,
     <<72882, 72883>>, <<72885, 72886>>, <<73009, 73014>>,
     <<73018, 73018>>, <<73020, 73021>>, <<73023, 73029>>,
     <<73031, 73031>>, <<73104, 73105>>, <<73109, 73109>>,
     <<73111, 73111>>, <<73459, 73460>>, <<78896, 78904>>,
     <<92912, 92916>>, <<92976, 92982>>, <<92992, 92995>>,
     <<94031, 94031>>, <<94095, 94111>>, <<94176, 94177>>,
     <<94179, 94180>>, <<110576, 110579>>, <<110581, 110587>>,
     <<110589, 110590>>, <<113821, 113822>>, <<113824, 113827>>,
     <<118528, 118573>>, <<118576, 118598>>, <<119143, 119145>>,
     <<119155, 119170>>, <<119173, 119179>>, <<119210, 119213>>,
     <<119362, 119364>>, <<121344, 121398>>, <<121403, 121452>>,
     <<121461, 121461>>, <<121476, 121476>>, <<121499, 121503>>,
     <<121505, 121519>>, <<122880, 122886>>, <<122888, 122904>>,
     <<122907, 122913>>, <<122915, 122916>>, <<122918, 122922>>,
     <<123184, 123197>>, <<123566, 123566>>, <<123628, 123631>>,
     <<125136, 125142>>, <<125252, 125259>>, <<127995, 127999>>,
     <<917505, 917505>>, <<917536, 917631>>, <<917760, 917999>>}

IsCaseIgnorable(c) == InRanges(CodePoint(c), CaseIgnorableRanges)

\* for a character that is not case-ignorable
IsCased(c) == InRanges(CodePoint(c), CasedRanges)

\* the capital sigma
Sigma == "U+03A3"

\* final_sigma: the sigma at i comes after a cased character and before
\* none, the case-ignorable characters between them left out
FinalSigma(s, i) ==
    LET before == {j \in 1..(i - 1) : ~IsCaseIgnorable(Ch(s, j))}
        after == {j \in (i + 1)..Len(s) : ~IsCaseIgnorable(Ch(s, j))}
    IN /\ before # {}
       /\ IsCased(Ch(s, CHOOSE j \in before : \A k \in before : k <= j))
       /\ after = {} \/ ~IsCased(Ch(s, CHOOSE j \in after : \A k \in after : j <= k))

\* the lower-cased characters of s from the lo-th to the hi-th; a capital
\* sigma in final position becomes the final small sigma U+03C2
RECURSIVE LowerFrom(_, _, _)
LowerFrom(s, lo, hi) ==
    IF lo > hi THEN Like(s)
    ELSE IF lo = hi
    THEN Like(s) \o (IF Ch(s, lo) = Sigma /\ FinalSigma(s, lo)
                     THEN <<"U+03C2">> ELSE LowerChar(Ch(s, lo)))
    ELSE LowerFrom(s, lo, (lo + hi) \div 2) \o LowerFrom(s, (lo + hi) \div 2 + 1, hi)

\* str.lower() of a text that is a string: none of its characters is a
\* sigma, and each is lower-cased on its own
RECURSIVE LowerString(_)
LowerString(s) ==
    IF Len(s) = 0 THEN ""
    ELSE IF Len(s) = 1 THEN LowerChar(s)
    ELSE LowerString(SubSeq(s, 1, Len(s) \div 2))
         \o LowerString(SubSeq(s, Len(s) \div 2 + 1, Len(s)))

\* str.lower()
lower(s) == IF IsTuple(s) THEN Text(LowerFrom(s, 1, Len(s))) ELSE LowerString(s)

\* any(keyword in command for keyword in step_keywords)
AnyKeywordIn(command, step_keywords) ==
    \E k \in 1..Len(step_keywords) : StrContains(command, step_keywords[k])

RECURSIVE FirstMatchFrom(_, _, _)
\* the inner for loop from j (0-based) on: the first index whose lower-cased
\* command contains a keyword, -1 when the loop ends without a break
FirstMatchFrom(commandList, j, step_keywords) ==
    IF j >= Len(commandList) THEN -1
    ELSE IF AnyKeywordIn(lower(commandList[j + 1]), step_keywords) THEN j
    ELSE FirstMatchFrom(commandList, j + 1, step_keywords)

\* a scan that starts at the last matched command instead of after it
FirstMatchAfter_FromLast(commandList, last, step_keywords) ==
    FirstMatchFrom(commandList, IF last < 0 THEN 0 ELSE last, step_keywords)

\* a scan that starts at the head of the list for every stage
FirstMatchAfter_FromStart(commandList, last, step_keywords) ==
    FirstMatchFrom(commandList, 0, step_keywords)

\* for j in range(last_step_found_idx + 1, len(command_list))
FirstMatchAfter(commandList, last, step_keywords) ==
    FirstMatchFrom(commandList, last + 1, step_keywords)

RECURSIVE JoinQuoted(_)
JoinQuoted(names) ==
    IF names = <<>> THEN ""
    ELSE "'" \o Head(names) \o "'"
         \o (IF Len(names) > 1 THEN ", " ELSE "") \o JoinQuoted(Tail(names))

\* the list as an f-string prints it
ListRepr(names) == "[" \o JoinQuoted(names) \o "]"

\* a diagnostic that names the first matched stage, identified_steps_in_order[0],
\* instead of the last
MissingStepMessage_AfterFirst(step, identified) ==
    IF identified = <<>> THEN Raised("IndexError")
    ELSE [passed |-> FALSE,
          message |->
              "Missing or out-of-order step: '" \o step.name \o "'. "
              \o "Expected to find a command related to '" \o step.keywords[1]
              \o "' after '" \o Head(identified)
              \o "' (if any previous step was found). "
              \o "The current sequence found is: " \o ListRepr(identified)]

\* the f-string of the failing branch; identified_steps_in_order[-1] raises
\* IndexError on an empty list
MissingStepMessage(step, identified) ==
    IF identified = <<>> THEN Raised("IndexError")
    ELSE [passed |-> FALSE,
          message |->
              "Missing or out-of-order step: '" \o step.name \o "'. "
              \o "Expected to find a command related to '" \o step.keywords[1]
              \o "' after '" \o Last(identified)
              \o "' (if any previous step was found). "
              \o "The current sequence found is: " \o ListRepr(identified)]

AllStepsMessage == "All GROMACS steps are present and in the correct order."
NotAllStepsMessage ==
    "Not all required GROMACS steps were identified in the correct sequence."

RECURSIVE SequenceScan(_, _, _, _)
\* the for loop over required_steps from stage i (0-based) on, and the
\* return after it
SequenceScan(commandList, i, last, identified) ==
    IF i = Len(required_steps)
    THEN IF Len(identified) = Len(required_steps)
         THEN [passed |-> TRUE, message |-> AllStepsMessage]
         ELSE [passed |-> FALSE, message |-> NotAllStepsMessage]
    ELSE LET step == required_steps[i + 1]
             j == FirstMatchAfter(commandList, last, step.keywords)
         IN IF j >= 0
            THEN SequenceScan(commandList, i + 1, j, Append(identified, step.name))
            ELSE MissingStepMessage(step, identified)

validate_gromacs_sequence(commandList) == SequenceScan(commandList, 0, -1, <<>>)

(***************************************************************************)
(* Bounds and input pools                                                  *)
(***************************************************************************)
MaxWords == 4
MaxOptions == 3
MaxCommands == 6
MaxGenerated == 2
MaxPieces == 3

NotCalled == [t |-> "NotCalled"]

\* the pieces a caller composes command strings from
ParseWords == {"gmx", "mdrun", "foo", "-s", "a.tpr", "(", ")", "(1 2.0)"}

ValidateCommands == commands \cup {"foo"}
ValidateFlags == {"-f", "-c", "-p", "-s", "-deffnm", "-o", "-box", "-zz"}
NotCommands ==
    {[type |-> "shell_command", command |-> "ls", options |-> <<>>],
     [command |-> "mdrun", options |-> <<>>],
     None}

\* the pieces a caller puts a text to scan together from, with nothing
\* between them: separators, a dash, a digit, a dot, a plus sign, a quote
\* mark, a word, a file extension, the keyword, a command name and a quoted
\* command name
LexPieces ==
    {" ", "\n", "-", "2", ".", "+", "'", "ab", ".gro", "gmx", "rms", "'rms'"}

\* two more of them: the Arabic-Indic digit three, which \d matches, and a
\* capital E with acute accent, which no rule matches
WideLexPieces == {<<"U+0663">>, <<"U+00C9">>}

\* an integer literal one digit longer than int() converts
LongInteger == "1" \o Zeros(INT_MAX_STR_DIGITS)

\* separators, characters that are illegal on their own, a quote mark, a
\* word and the long integer
ScanPieces == {" ", "\n", ".", "+", "'", "ab", LongInteger}

\* the command names and the well-formed options a caller builds command
\* strings from, option by option: every kind of value, and the values
\* that have to be quoted
OptionCommands == {"mdrun", "editconf"}
OptionTexts ==
    {"-s", "-s a.tpr", "-s -5", "-v md", "-v 2.50",
     "-box (7)", "-box (2.0 2.0 2.0)", "-box ( -1.5e1 7 0.25 )"}

\* an option whose vector holds the long integer; the caller writes it as
\* the last of the MaxOptions options, and parse, which raises at the long
\* integer, reads nothing after it
LongOptionTexts == {"-box (7 " \o LongInteger \o ")"}

QuotedOptionTexts ==
    {"-s", "-v 2.50", "-box ( -1.5e1 7 0.25 )",
     "-s \"a b\"", "-v 'gmx'", "-v '5'", "-s 'a.tpr'", "-v 'mdrun'"}

\* the pieces of SpecWords: options whose bare value holds a hyphen and a
\* letter (a force field name, a file name, a word whose rest is a flag of
\* pdb2gmx), an option whose value is a command name, a second command,
\* and options whose value is file-like with and without a whitelisted
\* extension
WordCommands == {"pdb2gmx", "editconf"}
WordTexts ==
    {"-ff amber99sb-ildn", "-f em-min.pdb", "-o em-p", "-deffnm energy",
     "gmx rms", "-o notes.txt", "-o out.group", "-o out.gro"}

\* further pieces of SpecWords, each written as the last piece of its
\* command string: hyphen words whose text before the hyphen is a command
\* name or gmx, a hyphen word whose rest is the option's own flag, a
\* file-like word with a hyphen and no whitelisted extension, and file-like
\* words with a command name before or after the dot or after a
\* whitelisted extension
LastWordTexts ==
    {"-o energy-min", "-o gmx-x", "-p em-p", "-o my-notes.txt", "-o rms.txt",
     "-o notes.rms", "-o out.grorms"}

\* one command per stage, "GMX Solvate -BOX 1" standing for both the box
\* stage (keyword box) and the solvation stage (keyword solvate)
SeqCommands ==
    {"gmx pdb2gmx -f a.pdb", "GMX Solvate -BOX 1", "gmx grompp -f a.mdp",
     "gmx mdrun -deffnm a"}

\* one command of no stage, GMX EDITCONF in capitals with a dotted capital I
\* (U+0130), which lower() turns into i and a combining dot above
WideSeqCommands ==
    {<<"G", "M", "X", " ", "E", "D", "U+0130", "T", "C", "O", "N", "F">>}

\* one command per stage, each with keywords of its own stage only, in the
\* canonical order
StageCommands ==
    <<"gmx pdb2gmx -f a.pdb", "gmx editconf -f a.gro", "gmx solvate -cp a.gro",
      "gmx grompp -f a.mdp", "gmx mdrun -deffnm a">>

\* what manager_agent.run may hand back as one item of its list
GeneratedItems ==
    {PyStr("gmx mdrun -deffnm a"), PyStr("gmx mdrun -zz"), PyStr("gmx foo"),
     PyInt(5)}
GeneratedLists == UNION {[1..n -> GeneratedItems] : n \in 0..MaxGenerated}

(***************************************************************************)
(* Specification SpecParse: a caller composes a command string and calls   *)
(* parse_gromacs_command on it, with and without validation                *)
(***************************************************************************)
ValidateIdle == parsed_command = None /\ verdict = NotCalled
SeqIdle ==
    /\ command_list = <<>>
    /\ step_i = 0
    /\ last_step_found_idx = -1
    /\ identified_steps_in_order = <<>>
    /\ seq_result = NotCalled
LexIdle ==
    /\ lexpos = 1
    /\ lineno = 1
    /\ tokens = <<>>
    /\ lexlog = <<>>
ParseIdle ==
    /\ cmd = ""
    /\ nwords = 0
    /\ results = [v \in BOOLEAN |-> NotCalled]
    /\ LexIdle
LoopIdle ==
    /\ retry_count = 0
    /\ feedback_history = <<>>
    /\ all_commands_valid = FALSE
    /\ final_generated_commands = <<>>
    /\ generated_cmds_list = <<>>
    /\ cmd_idx = 0
    /\ current_attempt_valid = TRUE
    /\ current_attempt_feedback = <<>>
    /\ temp_generated_commands = <<>>
    /\ current_task_template = ""
    /\ provider = "ollama"
    /\ model_calls = 0
    /\ outcome = NotCalled

ParseInit == pc = "compose" /\ ParseIdle /\ ValidateIdle /\ SeqIdle /\ LoopIdle

TypeWord(w) ==
    /\ pc = "compose"
    /\ nwords < MaxWords
    /\ cmd' = IF cmd = "" THEN w ELSE cmd \o " " \o w
    /\ nwords' = nwords + 1
    /\ UNCHANGED <<pc, results, lexVars, validateVars, seqVars, loopVars>>

CallParse(v) ==
    /\ pc \in {"compose", "parsed"}
    /\ results[v] = NotCalled
    /\ results' = [results EXCEPT ![v] = parse_gromacs_command(cmd, v)]
    /\ pc' = "parsed"
    /\ UNCHANGED <<cmd, nwords, lexVars, validateVars, seqVars, loopVars>>

ParseNext ==
    \/ \E w \in ParseWords : TypeWord(w)
    \/ \E v \in BOOLEAN : CallParse(v)

SpecParse == ParseInit /\ [][ParseNext]_vars

(***************************************************************************)
(* Specification SpecOptions: a caller writes "gmx <command>" followed by  *)
(* up to MaxOptions options and calls parse_gromacs_command on the string  *)
(* without validation                                                      *)
(***************************************************************************)
OptionsInit ==
    /\ pc = "o_compose"
    /\ cmd \in {"gmx " \o c : c \in OptionCommands}
    /\ nwords = 0
    /\ results = [v \in BOOLEAN |-> NotCalled]
    /\ LexIdle /\ ValidateIdle /\ SeqIdle /\ LoopIdle

TypeOption(o) ==
    /\ pc = "o_compose"
    /\ nwords < MaxOptions
    /\ cmd' = cmd \o " " \o o
    /\ nwords' = IF o \in LastWordTexts THEN MaxOptions ELSE nwords + 1
    /\ UNCHANGED <<pc, results, lexVars, validateVars, seqVars, loopVars>>

CallParseOptions ==
    /\ pc = "o_compose"
    /\ results' = [results EXCEPT ![FALSE] = parse_gromacs_command(cmd, FALSE)]
    /\ pc' = "o_parsed"
    /\ UNCHANGED <<cmd, nwords, lexVars, validateVars, seqVars, loopVars>>

OptionsNext ==
    \/ \E o \in OptionTexts : TypeOption(o)
    \/ \E o \in LongOptionTexts : nwords = MaxOptions - 1 /\ TypeOption(o)
    \/ CallParseOptions

SpecOptions == OptionsInit /\ [][OptionsNext]_vars

\* the same caller writing options whose values are quoted
QuotedNext ==
    \/ \E o \in QuotedOptionTexts : TypeOption(o)
    \/ CallParseOptions

SpecQuoted == OptionsInit /\ [][QuotedNext]_vars

(***************************************************************************)
(* Specification SpecWords: a caller writes "gmx <command>" followed by up *)
(* to MaxOptions pieces, options whose value is a word the lexer may split *)
(* and a second command, and calls parse_gromacs_command on the string     *)
(* with validation                                                         *)
(***************************************************************************)
WordsInit ==
    /\ pc = "o_compose"
    /\ cmd \in {"gmx " \o c : c \in WordCommands}
    /\ nwords = 0
    /\ results = [v \in BOOLEAN |-> NotCalled]
    /\ LexIdle /\ ValidateIdle /\ SeqIdle /\ LoopIdle

CallParseValidated ==
    /\ pc = "o_compose"
    /\ results' = [results EXCEPT ![TRUE] = parse_gromacs_command(cmd, TRUE)]
    /\ pc' = "o_parsed"
    /\ UNCHANGED <<cmd, nwords, lexVars, validateVars, seqVars, loopVars>>

WordsNext ==
    \/ \E o \in WordTexts : TypeOption(o)
    \/ \E o \in LastWordTexts : TypeOption(o)
    \/ CallParseValidated

SpecWords == WordsInit /\ [][WordsNext]_vars

(***************************************************************************)
(* Specification SpecLex: a caller puts a text together piece by piece and *)
(* GromacsLexer.tokenize scans it, one match of the master pattern, one    *)
(* ignored character or one illegal character per step                     *)
(***************************************************************************)
LexInit == pc = "x_compose" /\ ParseIdle /\ ValidateIdle /\ SeqIdle /\ LoopIdle

TypePiece(p) ==
    /\ pc = "x_compose"
    /\ nwords < MaxPieces
    /\ cmd' = Concat(cmd, p)
    /\ nwords' = nwords + 1
    /\ UNCHANGED <<pc, results, lexVars, validateVars, seqVars, loopVars>>

\* self.lexer.input(data); tokens = []
LexInput ==
    /\ pc = "x_compose"
    /\ lexpos' = 1
    /\ tokens' = <<>>
    /\ pc' = "x_lexing"
    /\ UNCHANGED <<cmd, nwords, results, lineno, lexlog,
                   validateVars, seqVars, loopVars>>

\* what the lexer does at position pos of s: the kind of the step
StepKind(s, pos, r) ==
    IF r.kind = "skip"
    THEN IF Ch(s, pos) \in t_ignore THEN "ignore" ELSE "newline"
    ELSE r.kind

\* one step of the scan inside self.lexer.token(); when the function of
\* the rule raises, the lexer is past the match, no token is appended and
\* the exception leaves token() and tokenize
LexToken ==
    /\ pc = "x_lexing"
    /\ lexpos <= Len(cmd)
    /\ \E r \in {LexAt(cmd, lexpos)} :
          /\ tokens' = IF r.kind = "tok" THEN Append(tokens, r.tok) ELSE tokens
          /\ lineno' = IF StepKind(cmd, lexpos, r) = "newline"
                       THEN lineno + r.n ELSE lineno
          /\ lexlog' = Append(lexlog, [kind |-> StepKind(cmd, lexpos, r),
                                       pos |-> lexpos, n |-> r.n])
          /\ lexpos' = lexpos + r.n
          /\ pc' = IF r.kind = "raise" THEN "x_raised" ELSE pc
    /\ UNCHANGED <<cmd, nwords, results, validateVars, seqVars, loopVars>>

\* the lexer is at the end of the data: token() leaves lexpos one past the
\* end (self.lexpos = lexpos + 1) and returns None, the loop breaks and
\* tokenize returns tokens
LexEnd ==
    /\ pc = "x_lexing"
    /\ lexpos > Len(cmd)
    /\ lexpos' = lexpos + 1
    /\ pc' = "x_done"
    /\ UNCHANGED <<cmd, nwords, results, lineno, tokens, lexlog,
                   validateVars, seqVars, loopVars>>

LexNext ==
    \/ \E p \in LexPieces : TypePiece(p)
    \/ \E p \in WideLexPieces : TypePiece(p)
    \/ LexInput
    \/ LexToken
    \/ LexEnd

SpecLex == LexInit /\ [][LexNext]_vars

\* the same caller with the pieces that matter to the scan going on and
\* ending; tokenize runs to its end once it is called
ScanNext ==
    \/ \E p \in ScanPieces : TypePiece(p)
    \/ LexInput
    \/ LexToken
    \/ LexEnd

SpecScan == LexInit /\ [][ScanNext]_vars /\ WF_vars(LexToken) /\ WF_vars(LexEnd)

(***************************************************************************)
(* Specification SpecValidate: GromacsCommandValidator.validate on a value *)
(* a caller has built                                                      *)
(***************************************************************************)
ValidateInit ==
    /\ pc = "v_build"
    /\ parsed_command \in
           {[type |-> "gromacs_command", command |-> c, options |-> <<>>] :
                c \in ValidateCommands} \cup NotCommands
    /\ verdict = NotCalled
    /\ ParseIdle /\ SeqIdle /\ LoopIdle

IsCommandDict(d) == d # None /\ "type" \in DOMAIN d /\ d.type = "gromacs_command"

AddOption(f) ==
    /\ pc = "v_build"
    /\ IsCommandDict(parsed_command)
    /\ Len(parsed_command.options) < MaxOptions
    /\ f \notin DictKeys(parsed_command.options)
    /\ parsed_command' =
           [parsed_command EXCEPT !.options = DictSet(@, f, PyTrue)]
    /\ UNCHANGED <<pc, verdict, parseVars, seqVars, loopVars>>

CallValidate ==
    /\ pc = "v_build"
    /\ verdict' = validate(parsed_command)
    /\ pc' = "v_done"
    /\ UNCHANGED <<parsed_command, parseVars, seqVars, loopVars>>

ValidateNext ==
    \/ \E f \in ValidateFlags : AddOption(f)
    \/ CallValidate

SpecValidate == ValidateInit /\ [][ValidateNext]_vars

(***************************************************************************)
(* Specification SpecSeq: validate_gromacs_sequence, one stage of the scan *)
(* per step                                                                *)
(***************************************************************************)
SeqInit == pc = "s_build" /\ SeqIdle /\ ParseIdle /\ ValidateIdle /\ LoopIdle

SeqAppend(c) ==
    /\ pc = "s_build"
    /\ Len(command_list) < MaxCommands
    /\ command_list' = Append(command_list, c)
    /\ UNCHANGED <<pc, step_i, last_step_found_idx, identified_steps_in_order,
                   seq_result, parseVars, validateVars, loopVars>>

SeqCall ==
    /\ pc = "s_build"
    /\ pc' = "s_scan"
    /\ step_i' = 0
    /\ last_step_found_idx' = -1
    /\ identified_steps_in_order' = <<>>
    /\ UNCHANGED <<command_list, seq_result, parseVars, validateVars, loopVars>>

\* one iteration of the loop over required_steps
SeqStage ==
    /\ pc = "s_scan"
    /\ step_i < Len(required_steps)
    /\ LET step == required_steps[step_i + 1]
           j == FirstMatchAfter(command_list, last_step_found_idx, step.keywords)
       IN IF j >= 0
          THEN /\ identified_steps_in_order' =
                      Append(identified_steps_in_order, step.name)
               /\ last_step_found_idx' = j
               /\ step_i' = step_i + 1
               /\ UNCHANGED <<pc, seq_result>>
          ELSE /\ seq_result' = MissingStepMessage(step, identified_steps_in_order)
               /\ pc' = "s_done"
               /\ UNCHANGED <<step_i, last_step_found_idx, identified_steps_in_order>>
    /\ UNCHANGED <<command_list, parseVars, validateVars, loopVars>>

\* the return after the loop
SeqReturn ==
    /\ pc = "s_scan"
    /\ step_i = Len(required_steps)
    /\ seq_result' = SequenceScan(command_list, step_i, last_step_found_idx,
                                  identified_steps_in_order)
    /\ pc' = "s_done"
    /\ UNCHANGED <<command_list, step_i, last_step_found_idx,
                   identified_steps_in_order, parseVars, validateVars, loopVars>>

SeqNext ==
    \/ \E c \in SeqCommands : SeqAppend(c)
    \/ \E c \in WideSeqCommands : SeqAppend(c)
    \/ SeqCall
    \/ SeqStage
    \/ SeqReturn

SpecSeq == SeqInit /\ [][SeqNext]_vars

(***************************************************************************)
(* Specification SpecStages: validate_gromacs_sequence on a list in which  *)
(* each stage's command stands at most once, in any order                  *)
(***************************************************************************)
StageAppend(k) ==
    /\ pc = "s_build"
    /\ \A i \in 1..Len(command_list) : command_list[i] # StageCommands[k]
    /\ command_list' = Append(command_list, StageCommands[k])
    /\ UNCHANGED <<pc, step_i, last_step_found_idx, identified_steps_in_order,
                   seq_result, parseVars, validateVars, loopVars>>

StagesNext ==
    \/ \E k \in 1..Len(StageCommands) : StageAppend(k)
    \/ SeqCall
    \/ SeqStage
    \/ SeqReturn

SpecStages == SeqInit /\ [][StagesNext]_vars

(***************************************************************************)
(* IFLAgent.run_agent                                                      *)
(***************************************************************************)
MAX_RETRIES == 3

Providers == {"transformers", "ollama"}

\* the text prompt_utils.get_ollama_generate_full_gromacs_plan_template
\* returns for the run's arguments (the same at every attempt)
BaseTaskTemplate == "<full gromacs plan task>"

FeedbackHeader ==
    "\n\nPrevious attempt failed with the following validation errors/warnings. Please correct the commands:\n"

RECURSIVE FeedbackLines(_)
FeedbackLines(fbs) ==
    IF fbs = <<>> THEN ""
    ELSE Concat(Concat("- ", Head(fbs)) \o "\n", FeedbackLines(Tail(fbs)))

\* current_task_template of an attempt
TaskTemplate(history) ==
    IF history # <<>>
    THEN Concat(BaseTaskTemplate \o FeedbackHeader, FeedbackLines(history))
    ELSE BaseTaskTemplate

\* the text {cmd} of an f-string, for the items the model hands back
FormatItem(item) ==
    IF item.t = "str" THEN item.v
    ELSE IF item.v < 0 THEN "-" \o NatToStr(0 - item.v) ELSE NatToStr(item.v)

RECURSIVE Join(_, _)
\* sep.join(strs)
Join(sep, strs) ==
    IF strs = <<>> THEN ""
    ELSE IF Len(strs) = 1 THEN Head(strs)
    ELSE Concat(Head(strs) \o sep, Join(sep, Tail(strs)))

NotAStringFeedback(item) ==
    Concat("Command '", FormatItem(item)) \o "' is not a string."
FailedParsingFeedback(item) ==
    Concat("Command '", FormatItem(item)) \o "' failed parsing."
ValidationFeedback(item, validation) ==
    Concat(Concat("Command '", FormatItem(item)) \o "' validation issues: ",
           Join(", ", (IF ~validation.valid THEN <<"Invalid syntax/structure">> ELSE <<>>)
                      \o validation.warnings))
    \o " "

\* a check of a parsed command that looks at the verdict alone and lets a
\* command with advisory warnings pass
CheckParsed_WarningsPass(item, parsed_cmd_result, valid, feedback, temp) ==
    IF IsRaised(parsed_cmd_result) THEN parsed_cmd_result
    ELSE IF parsed_cmd_result # None
    THEN IF "validation" \in DOMAIN parsed_cmd_result
         THEN IF ~parsed_cmd_result.validation.valid
              THEN [valid |-> FALSE,
                    feedback |->
                        Append(feedback,
                               ValidationFeedback(item, parsed_cmd_result.validation)),
                    temp |-> temp]
              ELSE [valid |-> valid, feedback |-> feedback,
                    temp |-> Append(temp, item)]
         ELSE [valid |-> valid, feedback |-> feedback, temp |-> temp]
    ELSE [valid |-> FALSE,
          feedback |-> Append(feedback, FailedParsingFeedback(item)),
          temp |-> temp]

\* the body of "for cmd in generated_cmds_list" for a cmd that is a string,
\* given what parse_gromacs_command(cmd) returned: what it does to
\* current_attempt_valid, current_attempt_feedback, temp_generated_commands;
\* an exception of parse_gromacs_command is not caught
CheckParsed(item, parsed_cmd_result, valid, feedback, temp) ==
    IF IsRaised(parsed_cmd_result) THEN parsed_cmd_result
    ELSE IF parsed_cmd_result # None
    THEN IF "validation" \in DOMAIN parsed_cmd_result
         THEN IF \/ ~parsed_cmd_result.validation.valid
                 \/ parsed_cmd_result.validation.warnings # <<>>
              THEN [valid |-> FALSE,
                    feedback |->
                        Append(feedback,
                               ValidationFeedback(item, parsed_cmd_result.validation)),
                    temp |-> temp]
              ELSE [valid |-> valid, feedback |-> feedback,
                    temp |-> Append(temp, item)]
         ELSE [valid |-> valid, feedback |-> feedback, temp |-> temp]
    ELSE [valid |-> FALSE,
          feedback |-> Append(feedback, FailedParsingFeedback(item)),
          temp |-> temp]

\* the body of "for cmd in generated_cmds_list" for one cmd
CheckOne(item, valid, feedback, temp) ==
    IF item.t # "str"
    THEN [valid |-> FALSE, feedback |-> Append(feedback, NotAStringFeedback(item)),
          temp |-> temp]
    ELSE CheckParsed(item, parse_gromacs_command(item.v, TRUE), valid, feedback, temp)

(***************************************************************************)
(* Specification SpecLoop: run_agent, one model call, one checked command  *)
(* or one end of attempt per step                                          *)
(***************************************************************************)
LoopInit ==
    /\ pc = "l_attempt"
    /\ provider \in Providers
    /\ retry_count = 0
    /\ feedback_history = <<>>
    /\ all_commands_valid = FALSE
    /\ final_generated_commands = <<>>
    /\ generated_cmds_list = <<>>
    /\ cmd_idx = 0
    /\ current_attempt_valid = TRUE
    /\ current_attempt_feedback = <<>>
    /\ temp_generated_commands = <<>>
    /\ current_task_template = ""
    /\ model_calls = 0
    /\ outcome = NotCalled
    /\ ParseIdle /\ ValidateIdle /\ SeqIdle

\* prompt_utils has no get_generate_full_gromacs_plan_template: with any
\* provider but "ollama" the first attempt raises before the model is called
TemplateMissing ==
    /\ pc = "l_attempt"
    /\ provider # "ollama"
    /\ outcome' = Raised("AttributeError")
    /\ pc' = "l_done"
    /\ UNCHANGED <<provider, retry_count, feedback_history, all_commands_valid,
                   final_generated_commands, generated_cmds_list, cmd_idx,
                   current_attempt_valid, current_attempt_feedback,
                   temp_generated_commands, current_task_template,
                   model_calls, parseVars, validateVars, seqVars>>

\* the start of an attempt up to the model's answer
Generate(answer) ==
    /\ pc = "l_attempt"
    /\ provider = "ollama"
    /\ retry_count < MAX_RETRIES
    /\ current_task_template' = TaskTemplate(feedback_history)
    /\ generated_cmds_list' = answer
    /\ model_calls' = model_calls + 1
    /\ current_attempt_valid' = TRUE
    /\ current_attempt_feedback' = <<>>
    /\ temp_generated_commands' = <<>>
    /\ cmd_idx' = 0
    /\ pc' = "l_check"
    /\ UNCHANGED <<provider, retry_count, feedback_history, all_commands_valid,
                   final_generated_commands, outcome,
                   parseVars, validateVars, seqVars>>

\* one iteration of the loop over generated_cmds_list; an exception leaves
\* the loops and run_agent
CheckCmd ==
    /\ pc = "l_check"
    /\ cmd_idx < Len(generated_cmds_list)
    /\ \E r \in {CheckOne(generated_cmds_list[cmd_idx + 1], current_attempt_valid,
                          current_attempt_feedback, temp_generated_commands)} :
          IF IsRaised(r)
          THEN /\ outcome' = r
               /\ pc' = "l_done"
               /\ UNCHANGED <<current_attempt_valid, current_attempt_feedback,
                              temp_generated_commands, cmd_idx>>
          ELSE /\ current_attempt_valid' = r.valid
               /\ current_attempt_feedback' = r.feedback
               /\ temp_generated_commands' = r.temp
               /\ cmd_idx' = cmd_idx + 1
               /\ UNCHANGED <<pc, outcome>>
    /\ UNCHANGED <<provider, retry_count, feedback_history, all_commands_valid,
                   final_generated_commands, generated_cmds_list,
                   current_task_template,
                   model_calls, parseVars, validateVars, seqVars>>

\* an end of attempt that keeps the feedback of the latest attempt only
EndAttempt_ReplaceHistory ==
    /\ pc = "l_check"
    /\ cmd_idx = Len(generated_cmds_list)
    /\ IF current_attempt_valid
       THEN /\ all_commands_valid' = TRUE
            /\ final_generated_commands' = temp_generated_commands
            /\ pc' = "l_report"
            /\ UNCHANGED <<feedback_history, retry_count>>
       ELSE /\ feedback_history' = current_attempt_feedback
            /\ retry_count' = IF retry_count + 1 < MAX_RETRIES
                              THEN retry_count + 1 ELSE retry_count
            /\ pc' = IF retry_count + 1 < MAX_RETRIES THEN "l_attempt" ELSE "l_report"
            /\ UNCHANGED <<all_commands_valid, final_generated_commands>>
    /\ UNCHANGED <<provider, generated_cmds_list, cmd_idx, current_attempt_valid,
                   current_attempt_feedback, temp_generated_commands,
                   current_task_template, outcome,
                   model_calls, parseVars, validateVars, seqVars>>

\* an end of attempt that takes an empty list for a failed attempt
EndAttempt_EmptyRejected ==
    /\ pc = "l_check"
    /\ cmd_idx = Len(generated_cmds_list)
    /\ IF current_attempt_valid /\ generated_cmds_list # <<>>
       THEN /\ all_commands_valid' = TRUE
            /\ final_generated_commands' = temp_generated_commands
            /\ pc' = "l_report"
            /\ UNCHANGED <<feedback_history, retry_count>>
       ELSE /\ feedback_history' = feedback_history \o current_attempt_feedback
            /\ retry_count' = IF retry_count + 1 < MAX_RETRIES
                              THEN retry_count + 1 ELSE retry_count
            /\ pc' = IF retry_count + 1 < MAX_RETRIES THEN "l_attempt" ELSE "l_report"
            /\ UNCHANGED <<all_commands_valid, final_generated_commands>>
    /\ UNCHANGED <<provider, generated_cmds_list, cmd_idx, current_attempt_valid,
                   current_attempt_feedback, temp_generated_commands,
                   current_task_template, outcome,
                   model_calls, parseVars, validateVars, seqVars>>

\* the end of an attempt: accept and break, or record the feedback and go
\* to the next value of range(MAX_RETRIES); when the range is exhausted the
\* for statement binds nothing and retry_count keeps the last index
EndAttempt ==
    /\ pc = "l_check"
    /\ cmd_idx = Len(generated_cmds_list)
    /\ IF current_attempt_valid
       THEN /\ all_commands_valid' = TRUE
            /\ final_generated_commands' = temp_generated_commands
            /\ pc' = "l_report"
            /\ UNCHANGED <<feedback_history, retry_count>>
       ELSE /\ feedback_history' = feedback_history \o current_attempt_feedback
            /\ retry_count' = IF retry_count + 1 < MAX_RETRIES
                              THEN retry_count + 1 ELSE retry_count
            /\ pc' = IF retry_count + 1 < MAX_RETRIES THEN "l_attempt" ELSE "l_report"
            /\ UNCHANGED <<all_commands_valid, final_generated_commands>>
    /\ UNCHANGED <<provider, generated_cmds_list, cmd_idx, current_attempt_valid,
                   current_attempt_feedback, temp_generated_commands,
                   current_task_template, outcome,
                   model_calls, parseVars, validateVars, seqVars>>

\* the report after the loop
Report ==
    /\ pc = "l_report"
    /\ outcome' = IF all_commands_valid
                  THEN [success |-> TRUE, commands |-> final_generated_commands]
                  ELSE [success |-> FALSE, issues |-> feedback_history]
    /\ pc' = "l_done"
    /\ UNCHANGED <<provider, retry_count, feedback_history, all_commands_valid,
                   final_generated_commands, generated_cmds_list, cmd_idx,
                   current_attempt_valid, current_attempt_feedback,
                   temp_generated_commands, current_task_template,
                   model_calls, parseVars, validateVars, seqVars>>

LoopNext ==
    \/ TemplateMissing
    \/ \E answer \in GeneratedLists : Generate(answer)
    \/ CheckCmd
    \/ EndAttempt
    \/ Report

SpecLoop == LoopInit /\ [][LoopNext]_vars

(***************************************************************************)
(* Specification Spec: any one of the four callers                         *)
(***************************************************************************)
Init == ParseInit \/ OptionsInit \/ WordsInit \/ LexInit \/ ValidateInit \/ SeqInit \/ LoopInit

Next ==
    \/ ParseNext \/ OptionsNext \/ QuotedNext \/ WordsNext \/ LexNext \/ ScanNext
    \/ ValidateNext \/ SeqNext \/ StagesNext \/ LoopNext

Spec == Init /\ [][Next]_vars

(***************************************************************************)
(* Properties of validate_gromacs_sequence (SpecSeq)                       *)
(***************************************************************************)
StageKeywords ==
    <<{"pdb2gmx", "topology", "forcefield"}, {"editconf", "box", "periodic"},
      {"solvate", "water"}, {"grompp", "mdp"}, {"mdrun", "simulation"}>>

\* the lower-cased text of command c contains a keyword of stage k
StageMatches(c, k) == \E kw \in StageKeywords[k] : StrContains(lower(c), kw)

\* the (command, stage) pairs of the pool that match
StageHits ==
    UNION {IF StageMatches(c, k) THEN {<<c, k>>} ELSE {} :
               c \in SeqCommands, k \in 1..5}
WideStageHits ==
    UNION {IF StageMatches(c, k) THEN {<<c, k>>} ELSE {} :
               c \in WideSeqCommands, k \in 1..5}

\* command c of the pool matches stage k
StageHit(c, k) ==
    IF IsTuple(c) THEN <<c, k>> \in WideStageHits ELSE <<c, k>> \in StageHits

\* there are i1 < i2 < i3 < i4 < i5 with L[ik] matching stage k
ExistsStageIndices(L) ==
    LET n == Len(L)
    IN \E i1 \in 1..n : StageHit(L[i1], 1) /\
       \E i2 \in (i1 + 1)..n : StageHit(L[i2], 2) /\
       \E i3 \in (i2 + 1)..n : StageHit(L[i3], 3) /\
       \E i4 \in (i3 + 1)..n : StageHit(L[i4], 4) /\
       \E i5 \in (i4 + 1)..n : StageHit(L[i5], 5)

SeqPassed(r) == ~IsRaised(r) /\ r # NotCalled /\ r.passed

\* C2: validate_gromacs_sequence returns passed = true exactly when the list
\* holds, at strictly increasing positions, one command per stage in the
\* fixed order of the five stages; the greedy scan neither rejects such a
\* list nor accepts another, whatever is interleaved.
C2_PassedIffStagesInOrder ==
    pc = "s_done" => (SeqPassed(seq_result) <=> ExistsStageIndices(command_list))

\* a passing list with an unrelated command between matched ones
C2_Witness ==
    /\ pc = "s_done"
    /\ SeqPassed(seq_result)
    /\ \E i \in 2..(Len(command_list) - 1) :
          \A k \in 1..5 : ~StageHit(command_list[i], k)

StageNames ==
    <<"Generate a GROMACS topology", "Edit the configuration",
      "Solvate the protein", "Generate mdrun input file", "Run the simulation">>

\* C3: for every list, the empty one and those without a topology command
\* included, a failing scan returns passed = false with a diagnostic naming
\* the missing stage, an example keyword, and the stages matched so far; it
\* never raises.
C3_FailureIsAVerdict ==
    (pc = "s_done" /\ ~ExistsStageIndices(command_list)) =>
        /\ ~IsRaised(seq_result)
        /\ seq_result.passed = FALSE
        /\ \E k \in 1..5 :
              /\ StrContains(seq_result.message, "step: '" \o StageNames[k] \o "'")
              /\ StrContains(seq_result.message,
                             "related to '" \o required_steps[k].keywords[1] \o "'")
              /\ StrContains(seq_result.message,
                             ListRepr(SubSeq(StageNames, 1, k - 1)))

\* the list holds each of the five stage commands exactly once
IsPermutationOfStages(L) ==
    /\ Len(L) = Len(StageCommands)
    /\ \A k \in 1..Len(StageCommands) : \E i \in 1..Len(L) : L[i] = StageCommands[k]

\* C14: the five stage commands contain keywords of their own stage only;
\* validate_gromacs_sequence passes for their canonical order and returns
\* passed = false, without raising, for every other permutation of the five.
C14_OnlyCanonicalOrderPasses ==
    /\ \A k, j \in 1..5 : StageMatches(StageCommands[k], j) <=> j = k
    /\ (pc = "s_done" /\ IsPermutationOfStages(command_list)) =>
           /\ ~IsRaised(seq_result)
           /\ seq_result.passed <=> command_list = StageCommands

\* the permutation that exchanges execution and preprocessing fails
C14_Witness ==
    /\ pc = "s_done"
    /\ command_list =
           <<"gmx pdb2gmx -f a.pdb", "gmx editconf -f a.gro", "gmx solvate -cp a.gro",
             "gmx mdrun -deffnm a", "gmx grompp -f a.mdp">>
    /\ ~IsRaised(seq_result)
    /\ seq_result.passed = FALSE

\* no command of the list contains a keyword of stage k
StageAbsent(L, k) == \A i \in 1..Len(L) : ~StageHit(L[i], k)

\* C15: when some stage, the first included, has no command with one of its
\* keywords in the list, validate_gromacs_sequence returns a verdict with
\* passed = false, whatever the length of the list and the repetitions of
\* the other stages' commands.
C15_MissingStageFails ==
    (pc = "s_done" /\ \E k \in 1..5 : StageAbsent(command_list, k)) =>
        /\ ~IsRaised(seq_result)
        /\ seq_result.passed = FALSE

\* the list of scenario 5: solvation between topology and box configuration
SolvateBeforeEditconf ==
    <<"gmx pdb2gmx -f a.pdb", "gmx solvate -cp a.gro", "gmx editconf -f a.gro",
      "gmx grompp -f a.mdp", "gmx mdrun -deffnm a">>

\* the diagnostic reports stage k as missing after stage k - 1, with stages
\* 1..k-1 as the matched list
ReportsMissing(r, k) ==
    /\ ~IsRaised(r)
    /\ r.passed = FALSE
    /\ StrContains(r.message, "Missing or out-of-order step: '" \o StageNames[k] \o "'")
    /\ StrContains(r.message, "' after '" \o StageNames[k - 1] \o "' (if any")
    /\ StrContains(r.message, "sequence found is: "
                                  \o ListRepr(SubSeq(StageNames, 1, k - 1)))
    /\ Len(r.message) =
           Len(MissingStepMessage(required_steps[k], SubSeq(StageNames, 1, k - 1)).message)

\* C16 as stated: for the list with solvation before box configuration the
\* verdict fails, the missing stage reported is box configuration (stage 2),
\* the last matched stage is topology generation, and only topology
\* generation is in the matched list.
C16_BoxStageReportedMissing ==
    (pc = "s_done" /\ command_list = SolvateBeforeEditconf) =>
        ReportsMissing(seq_result, 2)

\* C16 amended: for that list the verdict fails, the missing stage reported
\* is solvation (stage 3), the last matched stage is box configuration, and
\* the matched list is topology generation, box configuration: the editconf
\* command at index 2 is found by the forward scan for stage 2, and no
\* solvation command follows it.
C16_SolvationStageReportedMissing ==
    (pc = "s_done" /\ command_list = SolvateBeforeEditconf) =>
        /\ ReportsMissing(seq_result, 3)
        /\ last_step_found_idx = 2
        /\ identified_steps_in_order = SubSeq(StageNames, 1, 2)

C16_Witness ==
    /\ pc = "s_done"
    /\ command_list = SolvateBeforeEditconf
    /\ ~IsRaised(seq_result)
    /\ seq_result.passed = FALSE
    /\ step_i = 2

\* the (0-based) indices after the cursor whose command matches stage k
MatchesAfter(L, cursor, k) ==
    {j \in (cursor + 1)..(Len(L) - 1) : StageHit(L[j + 1], k)}

Min(S) == CHOOSE x \in S : \A y \in S : x <= y

\* one step of the scan at stage k = step_i + 1
ScanStep ==
    LET k == step_i + 1
        M == MatchesAfter(command_list, last_step_found_idx, k)
    IN /\ identified_steps_in_order = SubSeq(StageNames, 1, step_i)
       /\ IF step_i = 0 THEN last_step_found_idx = -1
          ELSE StageHit(command_list[last_step_found_idx + 1], step_i)
       /\ IF M # {}
          THEN /\ last_step_found_idx' = Min(M)
               /\ last_step_found_idx' > last_step_found_idx
               /\ identified_steps_in_order' = SubSeq(StageNames, 1, k)
               /\ step_i' = k
               /\ pc' = "s_scan"
          ELSE /\ pc' = "s_done"
               /\ seq_result' # NotCalled
               /\ ~SeqPassed(seq_result')
               /\ identified_steps_in_order' = SubSeq(StageNames, 1, k - 1)
               /\ last_step_found_idx' = last_step_found_idx
               /\ step_i' = step_i

\* C20: throughout the scan the matched stages are a prefix of the five
\* stages in canonical order and the cursor is the index of the command
\* matched last, the first match after the previous cursor and so strictly
\* greater than every earlier matched index; at the first stage k with no
\* match after the cursor the scan ends in that very step with exactly the
\* stages 1..k-1 recorded, whatever stands at or before the cursor and
\* whatever later stages' commands follow.
C20_ScanIsGreedyPrefix ==
    [][(pc = "s_scan" /\ step_i < Len(required_steps)) => ScanStep]_vars

\* the scan ended at the solvation stage although the command at the cursor
\* has a solvation keyword and commands of the later stages follow
C20_Witness ==
    /\ pc = "s_done"
    /\ command_list = <<"gmx pdb2gmx -f a.pdb", "GMX Solvate -BOX 1",
                        "gmx grompp -f a.mdp", "gmx mdrun -deffnm a">>
    /\ identified_steps_in_order = SubSeq(StageNames, 1, 2)
    /\ last_step_found_idx = 1
    /\ ~IsRaised(seq_result) /\ seq_result.passed = FALSE

(***************************************************************************)
(* Properties of GromacsLexer.tokenize (SpecLex)                           *)
(***************************************************************************)
\* the text of a stretch of cmd the lexer consumed in one step
LogText(e) == Text(SubSeq(cmd, e.pos, e.pos + e.n - 1))

IsTokenStep(e) == e.kind = "tok"

\* the token emitted by the i-th step of the scan, a token step
TokenAt(i) == tokens[Len(SelectSeq(SubSeq(lexlog, 1, i), IsTokenStep))]

\* the token rules in the order of their definition
RuleOrder == <<"FLAG", "LPAREN", "RPAREN", "FILENAME", "NUMBER", "INTEGER", "STRING">>

RuleLen(k, s, pos) ==
    CASE k = 1 -> t_FLAG_len(s, pos)
      [] k = 2 -> t_LPAREN_len(s, pos)
      [] k = 3 -> t_RPAREN_len(s, pos)
      [] k = 4 -> t_FILENAME_len(s, pos)
      [] k = 5 -> t_NUMBER_len(s, pos)
      [] k = 6 -> t_INTEGER_len(s, pos)
      [] k = 7 -> t_STRING_len(s, pos)

\* the rule a token was made by: GMX and COMMAND are made by the STRING rule
RuleOf(tok) == IF tok.type \in {"GMX", "COMMAND"} THEN "STRING" ELSE tok.type

\* the text at pos is a dash and a letter
DashLetterAt(s, pos) == Ch(s, pos) = "-" /\ Ch(s, pos + 1) \in Letter

\* the text at pos is a dash and a digit
DashDigitAt(s, pos) == Ch(s, pos) = "-" /\ Ch(s, pos + 1) \in Digit

\* length of the word at pos that is made of file name characters and ends
\* with a dot and a whitelisted extension, 0 if there is none
FileWordLen(s, pos) ==
    LET n == RunLen(s, pos, FileChar)
    IN IF n >= 1 /\ Ch(s, pos + n) = "." /\ Len(s) >= pos + n + 3
          /\ \E x \in Extensions : SubSeq(s, pos + n + 1, pos + n + 3) = x
       THEN n + 4 ELSE 0

\* the text at pos is digits, a decimal point and a digit
DecimalAt(s, pos) ==
    LET d == RunLen(s, pos, Digit)
    IN d >= 1 /\ Ch(s, pos + d) = "." /\ Ch(s, pos + d + 1) \in Digit

IsNegativeNumber(tok) ==
    \/ tok.type = "INTEGER" /\ tok.value.t = "int" /\ tok.value.v <= 0
    \/ /\ tok.type = "NUMBER" /\ tok.value.t = "float"
       /\ tok.value.neg \/ (~IsInf(tok.value) /\ tok.value.digits = <<>>)

\* C21: at every scan position the token emitted is that of the first of
\* the rules Flag, parentheses, Filename, Float, Integer, String that
\* matches there, with the text that rule matches, and a character is
\* skipped as illegal or as a newline only where none of them matches; so a
\* dash and a letter start a Flag even where a file name goes on, a word
\* with a whitelisted extension that starts with a digit is one Filename,
\* digits with a decimal point are one Float, and a dash and a digit start a
\* negative number (or a file name), never a Flag
C21_FirstRuleWins ==
    \A i \in 1..Len(lexlog) :
        LET e == lexlog[i]
            matching == {k \in 1..7 : RuleLen(k, cmd, e.pos) > 0}
        IN /\ e.kind \in {"newline", "error"} => matching = {}
           /\ e.kind = "tok" =>
                /\ matching # {}
                /\ \A k \in matching :
                      (\A j \in matching : k <= j) =>
                          /\ RuleOf(TokenAt(i)) = RuleOrder[k]
                          /\ e.n = RuleLen(k, cmd, e.pos)
                /\ DashLetterAt(cmd, e.pos) => TokenAt(i).type = "FLAG"
                /\ (Ch(cmd, e.pos) \in Digit /\ FileWordLen(cmd, e.pos) > 0) =>
                      /\ TokenAt(i).type = "FILENAME"
                      /\ e.n = FileWordLen(cmd, e.pos)
                /\ (DecimalAt(cmd, e.pos) /\ FileWordLen(cmd, e.pos) = 0) =>
                      TokenAt(i).type = "NUMBER"
                /\ DashDigitAt(cmd, e.pos) =>
                      /\ TokenAt(i).type # "FLAG"
                      /\ IF FileWordLen(cmd, e.pos) > 0
                         THEN TokenAt(i).type = "FILENAME"
                         ELSE IsNegativeNumber(TokenAt(i))

\* "-ab.gro" has been scanned: a Flag, an illegal dot and a string, although
\* the Filename rule matches the whole word
C21_Witness ==
    /\ pc = "x_done"
    /\ cmd = "-ab.gro"
    /\ t_FILENAME_len(cmd, 1) = 7
    /\ tokens = <<Tok("FLAG", PyStr("-ab")), Tok("STRING", PyStr("gro"))>>

QuoteMarks == {"\"", "'"}

\* the step scanned a bare identifier: a letter or underscore first, and not
\* the start of a file name
IsBareIdentifierStep(e) ==
    /\ e.kind = "tok"
    /\ Ch(cmd, e.pos) \in IdentStart
    /\ FileWordLen(cmd, e.pos) = 0

\* the step scanned a quoted literal
IsQuotedStep(e) == e.kind = "tok" /\ Ch(cmd, e.pos) \in QuoteMarks

\* the class of a bare identifier, by its text alone
ClassOfLexeme(text) ==
    IF text = "gmx" THEN "GMX" ELSE IF In(text, commands) THEN "COMMAND" ELSE "STRING"

\* C22: a bare identifier is one token whose class depends on its text
\* alone, wherever it stands: GMX for gmx, COMMAND for a known command name,
\* STRING otherwise, with the text as value; a quoted literal is a STRING
\* whose value is the text between the quotes, also when that text is gmx or
\* a command name
C22_ClassifiedByLexeme ==
    \A i \in 1..Len(lexlog) :
        LET e == lexlog[i]
        IN /\ IsBareIdentifierStep(e) =>
                /\ e.n = RunLen(cmd, e.pos, IdentChar)
                /\ TokenAt(i) = Tok(ClassOfLexeme(LogText(e)), PyStr(LogText(e)))
                /\ \A j \in 1..Len(lexlog) :
                      (IsBareIdentifierStep(lexlog[j])
                          /\ LogText(lexlog[j]) = LogText(e))
                      => TokenAt(j).type = TokenAt(i).type
           /\ IsQuotedStep(e) =>
                /\ e.n >= 2
                /\ Ch(cmd, e.pos + e.n - 1) = Ch(cmd, e.pos)
                /\ TokenAt(i) = Tok("STRING", PyStr(Text(SubSeq(cmd, e.pos + 1,
                                                                e.pos + e.n - 2))))

\* "rms 'rms'" has been scanned: the bare word is a COMMAND, the quoted one
\* a STRING with the same value
C22_Witness ==
    /\ pc = "x_done"
    /\ cmd = "rms 'rms'"
    /\ tokens = <<Tok("COMMAND", PyStr("rms")), Tok("STRING", PyStr("rms"))>>

RECURSIVE SumN(_)
\* number of characters the steps of a log consumed
SumN(log) == IF log = <<>> THEN 0 ELSE Head(log).n + SumN(Tail(log))

IsNewlineStep(e) == e.kind = "newline"

RECURSIVE Spaces(_)
Spaces(n) == IF n = 0 THEN "" ELSE " " \o Spaces(n - 1)

RECURSIVE BlankNewlines(_)
\* the text the steps of a log consumed, with a space for every newline the
\* lexer consumed as a newline
BlankNewlines(log) ==
    IF log = <<>> THEN ""
    ELSE Concat(IF Head(log).kind = "newline" THEN Spaces(Head(log).n)
                ELSE LogText(Head(log)),
                BlankNewlines(Tail(log)))

\* every character up to the lexer's position has been consumed exactly
\* once, by exactly one step of one of the four kinds
ConsumedOnce ==
    /\ pc # "x_done" => lexpos = 1 + SumN(lexlog)
    /\ SumN(lexlog) <= Len(cmd)
    /\ \A i \in 1..Len(lexlog) :
          LET e == lexlog[i]
          IN /\ e.n >= 1
             /\ e.pos = 1 + SumN(SubSeq(lexlog, 1, i - 1))
             /\ e.kind \in {"tok", "ignore", "newline", "error"}
             /\ e.kind = "ignore" => e.n = 1 /\ In(LogText(e), {" ", "\t"})
             /\ e.kind = "newline" => LogText(e) = SubSeq("\n\n\n\n\n\n\n\n", 1, e.n)
             /\ e.kind = "error" =>
                   /\ e.n = 1
                   /\ ~In(LogText(e), {" ", "\t", "\n"})
                   /\ \A k \in 1..7 : RuleLen(k, cmd, e.pos) = 0
    /\ Len(tokens) = Len(SelectSeq(lexlog, IsTokenStep))
    /\ Len(tokens) <= Len(cmd)
    /\ lineno = 1 + SumN(SelectSeq(lexlog, IsNewlineStep))

\* when tokenize has returned the whole text has been consumed, the
\* lexer's position is one past the end of the text, and the tokens are
\* those of the text with spaces for its newlines
ScannedToTheEnd ==
    pc = "x_done" =>
        /\ SumN(lexlog) = Len(cmd)
        /\ lexpos = Len(cmd) + 2
        /\ tokens = tokenize(cmd)
        /\ tokens = tokenize(BlankNewlines(lexlog))

\* C23: tokenize terminates on every text with a finite list of tokens and
\* never gives up: every character is consumed exactly once, as part of one
\* token, as an ignored space or tab, as part of a run of newlines, or as
\* one illegal character skipped on its own with the scan going on at the
\* next character; a newline only adds to the line counter and separates
\* tokens like a space
C23_ScanConsumesAllAndEnds ==
    /\ [](ConsumedOnce /\ ScannedToTheEnd)
    /\ (pc = "x_lexing") ~> (pc = "x_done")

(***************************************************************************)
(* Properties of GromacsCommandValidator.validate (SpecValidate)           *)
(***************************************************************************)
Validated == pc = "v_done" /\ IsCommandDict(parsed_command)

Count(w, text) == Cardinality({i \in 1..Len(w) : w[i] = text})

IsFlagNameWarning(text) == StrContains(text, "may not be a valid flag for")

\* C5: for every ParsedCommand of kind gromacs_command, whatever its name,
\* options and warnings, validate returns isValid = true; isValid = false
\* is returned only for an input whose kind is not gromacs_command.
C5_ValidUnlessNotACommand ==
    pc = "v_done" =>
        /\ IsCommandDict(parsed_command) => (~IsRaised(verdict) /\ verdict.valid)
        /\ (~IsRaised(verdict) /\ ~verdict.valid) => ~IsCommandDict(parsed_command)

\* a command judged valid with three warnings
C5_Witness == Validated /\ verdict.valid /\ Len(verdict.warnings) >= 3

\* C6: the required-flag warnings are decided by the command name and the
\* set of option keys alone: pdb2gmx without -f one; grompp one for each of
\* -f, -c, -p that is absent; mdrun one iff both -s and -deffnm are absent;
\* any other command none.
C6_RequiredFlagWarnings ==
    Validated =>
        LET w == verdict.warnings
            command == parsed_command.command
            keys == DictKeys(parsed_command.options)
            one(cond) == IF cond THEN 1 ELSE 0
        IN /\ Count(w, Pdb2gmxNeedsF) = one(command = "pdb2gmx" /\ "-f" \notin keys)
           /\ Count(w, GromppNeedsF) = one(command = "grompp" /\ "-f" \notin keys)
           /\ Count(w, GromppNeedsC) = one(command = "grompp" /\ "-c" \notin keys)
           /\ Count(w, GromppNeedsP) = one(command = "grompp" /\ "-p" \notin keys)
           /\ Count(w, MdrunNeedsSOrDeffnm) =
                  one(command = "mdrun" /\ "-s" \notin keys /\ "-deffnm" \notin keys)
           /\ \A i \in 1..Len(w) :
                  \/ IsFlagNameWarning(w[i])
                  \/ w[i] \in {Pdb2gmxNeedsF, GromppNeedsF, GromppNeedsC,
                               GromppNeedsP, MdrunNeedsSOrDeffnm}

\* mdrun with -deffnm alone: no warning at all
C6_Witness ==
    /\ Validated
    /\ parsed_command.command = "mdrun"
    /\ DictKeys(parsed_command.options) = {"-deffnm"}
    /\ verdict.warnings = <<>>

\* C7: for each of the six commands of the flag table and every option map,
\* validate gives exactly one flag-name warning, naming the flag and the
\* command, for each option key outside the command's accepted set and none
\* for a key inside it.
C7_FlagNameWarnings ==
    (Validated /\ parsed_command.command \in COMMAND_FLAGS_keys) =>
        LET w == verdict.warnings
            command == parsed_command.command
            keys == DictKeys(parsed_command.options)
        IN /\ \A k \in keys :
                  Count(w, FlagWarning(k, command)) =
                      IF k \in COMMAND_FLAGS(command) THEN 0 ELSE 1
           /\ Cardinality({i \in 1..Len(w) : IsFlagNameWarning(w[i])}) =
                  Cardinality(keys \ COMMAND_FLAGS(command))

\* energy with one accepted flag and two others
C7_Witness ==
    /\ Validated
    /\ parsed_command.command = "energy"
    /\ DictKeys(parsed_command.options) = {"-f", "-zz", "-box"}
    /\ Len(verdict.warnings) = 2

\* C8: for each of the 17 known commands outside the flag table and every
\* option map, validate returns an empty warnings list.
C8_NoWarningsOutsideTable ==
    /\ Cardinality(commands \ COMMAND_FLAGS_keys) = 17
    /\ (Validated /\ parsed_command.command \in commands \ COMMAND_FLAGS_keys) =>
           verdict.warnings = <<>>

\* rms with three flags, none of them warned about
C8_Witness ==
    /\ Validated
    /\ parsed_command.command = "rms"
    /\ DictKeys(parsed_command.options) = {"-zz", "-s", "-box"}
    /\ verdict.warnings = <<>>

\* C17: for every input that is not a ParsedCommand of kind gromacs_command
\* (a record of another kind, a record with no kind field, None) validate
\* returns isValid = false with exactly one warning saying that it is not a
\* valid command, and does not raise.
C17_NotACommandIsRejected ==
    (pc = "v_done" /\ ~IsCommandDict(parsed_command)) =>
        /\ ~IsRaised(verdict)
        /\ verdict.valid = FALSE
        /\ verdict.warnings = <<"Not a valid GROMACS command">>

(***************************************************************************)
(* Properties of parse_gromacs_command (SpecParse)                         *)
(***************************************************************************)
IsParsedCommand(r) == "command" \in DOMAIN r

TypesOf(toks) == [i \in 1..Len(toks) |-> toks[i].type]

RECURSIVE OptionsEnd(_, _)
\* types from position i on are a (possibly empty) sequence of options
OptionsEnd(types, i) ==
    IF i > Len(types) THEN TRUE
    ELSE IF types[i] # "FLAG" THEN FALSE
    ELSE IF i + 1 <= Len(types)
            /\ types[i + 1] \in {"FILENAME", "STRING", "NUMBER", "INTEGER"}
    THEN OptionsEnd(types, i + 2)
    ELSE IF i + 1 <= Len(types) /\ types[i + 1] = "LPAREN"
    THEN LET n == CHOOSE m \in 0..Len(types) :
                      /\ \A j \in (i + 2)..(i + 1 + m) :
                             j <= Len(types) /\ types[j] \in {"NUMBER", "INTEGER"}
                      /\ ~(i + 2 + m <= Len(types)
                           /\ types[i + 2 + m] \in {"NUMBER", "INTEGER"})
         IN /\ n >= 1
            /\ i + 2 + n <= Len(types)
            /\ types[i + 2 + n] = "RPAREN"
            /\ OptionsEnd(types, i + 3 + n)
    ELSE OptionsEnd(types, i + 1)

\* the token types are a sentence of the grammar of section 4.2:
\* command := Keyword CommandName option*, option := Flag value?
IsSentence(types) ==
    /\ Len(types) >= 2
    /\ types[1] = "GMX"
    /\ types[2] = "COMMAND"
    /\ OptionsEnd(types, 3)

\* C1: parsing is all-or-nothing: a command string whose complete token
\* sequence is not a sentence of the grammar never yields a ParsedCommand.
C1_AllOrNothing ==
    \A v \in BOOLEAN :
        IsParsedCommand(results[v]) => IsSentence(TypesOf(tokenize(cmd)))

\* C9: the returned record carries a validation verdict iff validate is true
\* and the parse succeeded; the command name and the option map are the same
\* with and without validation.
C9_VerdictIffValidated ==
    /\ \A v \in BOOLEAN :
           IsParsedCommand(results[v]) => (("validation" \in DOMAIN results[v]) <=> v)
    /\ (results[TRUE] # NotCalled /\ results[FALSE] # NotCalled) =>
           /\ results[TRUE] = None <=> results[FALSE] = None
           /\ results[TRUE] # None =>
                  /\ results[TRUE].type = results[FALSE].type
                  /\ results[TRUE].command = results[FALSE].command
                  /\ results[TRUE].options = results[FALSE].options

\* both calls made on a command with an option: one record with a verdict,
\* one without
C9_Witness ==
    /\ IsParsedCommand(results[TRUE]) /\ IsParsedCommand(results[FALSE])
    /\ results[FALSE].options # <<>>
    /\ "validation" \in DOMAIN results[TRUE]
    /\ "validation" \notin DOMAIN results[FALSE]

\* C10: the name of every ParsedCommand that parse_gromacs_command returns
\* is one of the 23 known commands.
C10_NameIsKnownCommand ==
    /\ Cardinality(commands) = 23
    /\ \A v \in BOOLEAN :
           IsParsedCommand(results[v]) => results[v].command \in commands

\* a command parsed from a string that also holds the unknown word foo
C10_Witness ==
    /\ IsParsedCommand(results[TRUE])
    /\ StrContains(cmd, "foo")
    /\ results[TRUE].command = "mdrun"

\* the value returned for a failed parse
IsParseFailure(r) == r # NotCalled /\ ~IsRaised(r) /\ "command" \notin DOMAIN r

\* C18: on every parse failure the value returned to the caller is a
\* structured failure that carries the offending token (or an end-of-input
\* marker) and the expected-context description: the diagnostics are data
\* in the returned value, not only console output.
C18_FailureCarriesDiagnostic ==
    \A v \in BOOLEAN :
        IsParseFailure(results[v]) =>
            /\ "token" \in DOMAIN results[v]
            /\ "expected" \in DOMAIN results[v]

(***************************************************************************)
(* Properties of the option map (SpecOptions)                              *)
(***************************************************************************)
OptionsParsed ==
    /\ pc = "o_parsed"
    /\ ~IsRaised(results[FALSE])
    /\ IsSentence(TypesOf(tokenize(cmd)))

FlagPositions(toks) == {i \in 1..Len(toks) : toks[i].type = "FLAG"}

\* no later token is the same flag
IsLastOccurrence(toks, i) ==
    \A j \in FlagPositions(toks) : j > i => toks[j].value # toks[i].value

Occurrences(toks, i) ==
    Cardinality({j \in FlagPositions(toks) : toks[j].value = toks[i].value})

\* the flag at i has no value: the next token is a flag or there is none
IsValueless(toks, i) == i = Len(toks) \/ toks[i + 1].type = "FLAG"

\* the members of the vector opened at position i, in input order
VectorMembers(toks, i) ==
    LET close == CHOOSE j \in (i + 1)..Len(toks) :
                     /\ toks[j].type = "RPAREN"
                     /\ \A m \in (i + 1)..(j - 1) : toks[m].type # "RPAREN"
    IN [m \in 1..(close - i - 1) |-> toks[i + m].value]

\* what the text after the flag at i says its value is
WrittenValue(toks, i) ==
    IF IsValueless(toks, i) THEN PyTrue
    ELSE IF toks[i + 1].type = "LPAREN" THEN PyList(VectorMembers(toks, i + 1))
    ELSE toks[i + 1].value

KeyCount(opts, key) == Cardinality({n \in 1..Len(opts) : opts[n].k = key})

\* C11: in a well-formed command string a flag that occurs more than once is
\* in the option map exactly once, with the value of its last occurrence
\* (Boolean(true) when that occurrence has no value); the flags that occur
\* once keep the value of their only occurrence; the map has no other key.
C11_LastOccurrenceWins ==
    OptionsParsed =>
        LET toks == tokenize(cmd)
            r == results[FALSE]
        IN /\ r # None
           /\ DictKeys(r.options) = {toks[i].value.v : i \in FlagPositions(toks)}
           /\ \A i \in FlagPositions(toks) :
                  /\ KeyCount(r.options, toks[i].value.v) = 1
                  /\ IsLastOccurrence(toks, i) =>
                         DictGet(r.options, toks[i].value.v) = WrittenValue(toks, i)

\* -s written with a file name and later without a value, another flag in
\* between: -s is Boolean(true), -v keeps its value
C11_Witness ==
    /\ OptionsParsed
    /\ cmd = "gmx mdrun -s a.tpr -v md -s"
    /\ results[FALSE].options =
           <<[k |-> "-s", v |-> PyTrue], [k |-> "-v", v |-> PyStr("md")]>>

\* the kind of Python value a value token (or an opening parenthesis) gives
KindOfValueToken(type) ==
    CASE type \in {"FILENAME", "STRING"} -> "str"
      [] type = "NUMBER" -> "float"
      [] type = "INTEGER" -> "int"
      [] type = "LPAREN" -> "list"

\* C12: in a well-formed command string a flag whose deciding (last)
\* occurrence is followed at once by another flag or by the end of input is
\* stored with Boolean(true); one followed by a value token is stored with
\* that token's value, of the token's kind, and never with Boolean(true).
C12_ValuelessFlagIsTrue ==
    OptionsParsed =>
        LET toks == tokenize(cmd)
            opts == results[FALSE].options
        IN \A i \in FlagPositions(toks) :
               IsLastOccurrence(toks, i) =>
                   LET stored == DictGet(opts, toks[i].value.v)
                   IN IF IsValueless(toks, i)
                      THEN stored = PyTrue
                      ELSE /\ stored # PyTrue
                           /\ stored.t = KindOfValueToken(toks[i + 1].type)
                           /\ toks[i + 1].type # "LPAREN" => stored = toks[i + 1].value

\* a valueless flag before another flag, a flag with a float and a flag
\* with a vector
C12_Witness ==
    /\ OptionsParsed
    /\ cmd = "gmx editconf -s -v 2.50 -box (7)"
    /\ results[FALSE].options =
           <<[k |-> "-s", v |-> PyTrue],
             [k |-> "-v", v |-> PyFloat(25, -1)],
             [k |-> "-box", v |-> PyList(<<PyInt(7)>>)]>>

\* the Python number value is the rational num / den
IsNumber(value, num, den) ==
    CASE value.t = "int" -> value.v * den = num
      [] value.t = "float" ->
            IF IsInf(value) THEN FALSE
            ELSE IF value.e >= 0 THEN Mantissa(value) * Pow10(value.e) * den = num
            ELSE Mantissa(value) * den = num * Pow10(0 - value.e)
      [] OTHER -> FALSE

\* the vector options of the pool and the numbers their members denote
VectorTable ==
    {[text |-> "-box (7)", members |-> <<[kind |-> "int", num |-> 7, den |-> 1]>>],
     [text |-> "-box (2.0 2.0 2.0)",
      members |-> <<[kind |-> "float", num |-> 2, den |-> 1],
                    [kind |-> "float", num |-> 2, den |-> 1],
                    [kind |-> "float", num |-> 2, den |-> 1]>>],
     [text |-> "-box ( -1.5e1 7 0.25 )",
      members |-> <<[kind |-> "float", num |-> -15, den |-> 1],
                    [kind |-> "int", num |-> 7, den |-> 1],
                    [kind |-> "float", num |-> 1, den |-> 4]>>]}

\* C13: a parenthesized vector of one or more integer and float literals
\* parses to a list with one element per member, in input order, each
\* element the numeric value of its member: the list has the length and the
\* order of the member tokens, and for the vectors of the table the numbers
\* the text denotes.
C13_VectorIsNumericList ==
    OptionsParsed =>
        LET toks == tokenize(cmd)
            opts == results[FALSE].options
        IN /\ \A i \in FlagPositions(toks) :
                  (IsLastOccurrence(toks, i) /\ ~IsValueless(toks, i)
                       /\ toks[i + 1].type = "LPAREN") =>
                      LET stored == DictGet(opts, toks[i].value.v)
                          members == VectorMembers(toks, i + 1)
                      IN /\ stored.t = "list"
                         /\ Len(stored.v) = Len(members)
                         /\ Len(members) >= 1
                         /\ \A m \in 1..Len(members) :
                                /\ toks[i + 1 + m].type \in {"NUMBER", "INTEGER"}
                                /\ stored.v[m] = members[m]
           /\ \A row \in VectorTable :
                  \A i \in FlagPositions(toks) :
                      (Occurrences(toks, i) = 1 /\ toks[i].value.v = "-box"
                           /\ StrContains(cmd, row.text)) =>
                          LET stored == DictGet(opts, "-box")
                          IN /\ stored.t = "list"
                             /\ Len(stored.v) = Len(row.members)
                             /\ \A m \in 1..Len(row.members) :
                                    /\ stored.v[m].t = row.members[m].kind
                                    /\ IsNumber(stored.v[m], row.members[m].num,
                                                row.members[m].den)

\* a vector of a float with an exponent, an integer and a float, after
\* another option: [-15.0, 7, 0.25]
C13_Witness ==
    /\ OptionsParsed
    /\ cmd = "gmx editconf -s a.tpr -box ( -1.5e1 7 0.25 )"
    /\ DictGet(results[FALSE].options, "-box") =
           PyList(<<PyFloat(-15, 0), PyInt(7), PyFloat(25, -2)>>)

(***************************************************************************)
(* render: a ParsedCommand written back as text, as the round-trip         *)
(* property describes it                                                   *)
(***************************************************************************)
\* the float x as a Float literal that float() reads back as x: repr(x),
\* but with a digit after the point where repr writes none (1e+22) and an
\* infinity as a power of ten beyond the largest float
FloatStr(x) ==
    IF IsInf(x) THEN (IF x.neg THEN "-" ELSE "") \o "1.0e309"
    ELSE IF x.digits = <<>> THEN (IF x.neg THEN "-0.0" ELSE "0.0")
    ELSE LET digits == DigitText(x.digits)
             k == Len(digits)
             decpt == x.e + k
         IN (IF x.neg THEN "-" ELSE "")
            \o (IF decpt > -4 /\ decpt <= 16
                THEN IF decpt <= 0 THEN "0." \o Zeros(0 - decpt) \o digits
                     ELSE IF decpt >= k THEN digits \o Zeros(decpt - k) \o ".0"
                     ELSE SubSeq(digits, 1, decpt) \o "." \o SubSeq(digits, decpt + 1, k)
                ELSE SubSeq(digits, 1, 1) \o "."
                     \o (IF k > 1 THEN SubSeq(digits, 2, k) ELSE "0")
                     \o "e" \o IntStr(decpt - 1))

NumberStr(value) ==
    IF value.t = "int" THEN IntStr(value.v) ELSE FloatStr(value)

RECURSIVE NumberStrs(_)
NumberStrs(l) == IF l = <<>> THEN <<>> ELSE <<NumberStr(Head(l))>> \o NumberStrs(Tail(l))

\* what follows the flag: nothing for Boolean(true), the parenthesized
\* members for a vector, the value itself otherwise
renderValue(value) ==
    CASE value.t = "bool" -> ""
      [] value.t = "list" -> " (" \o Join(" ", NumberStrs(value.v)) \o ")"
      [] value.t = "str" -> Concat(" ", value.v)
      [] OTHER -> " " \o NumberStr(value)

RECURSIVE renderOptions(_)
renderOptions(opts) ==
    IF opts = <<>> THEN ""
    ELSE Concat(Concat(" " \o Head(opts).k, renderValue(Head(opts).v)),
                renderOptions(Tail(opts)))

\* 'gmx', the name, then each flag followed by its value
render(r) == Concat("gmx " \o r.command, renderOptions(r.options))

\* the same name and an equal option map: same keys, same kinds and values
SameCommand(a, b) ==
    /\ a # None /\ b # None
    /\ a.command = b.command
    /\ DictKeys(a.options) = DictKeys(b.options)
    /\ Len(a.options) = Len(b.options)
    /\ \A key \in DictKeys(a.options) : DictGet(a.options, key) = DictGet(b.options, key)

\* parse(render(r)) is r again
RoundTrips(r) == \E back \in {parse(render(r))} : SameCommand(back, r)

\* the text, written without quotes, is read back as one Text or Filename
\* token with that text
IsBareText(value) ==
    \E toks \in {tokenize(value.v)} :
        /\ Len(toks) = 1
        /\ toks[1].type \in {"STRING", "FILENAME"}
        /\ toks[1].value = value

\* C19 as stated: for every well-formed command string s, parsing the
\* rendering of parse(s) gives the same name and an equal option map, also
\* when a Text value was quoted in s (spaces, gmx, a command name, the
\* look of a number or of a file name).
C19_RoundTrip ==
    OptionsParsed => RoundTrips(results[FALSE])

\* C19 amended: the round trip holds for every well-formed command string
\* in whose option map each Text value is a bare word: written without
\* quotes it is read back as one Text or Filename token with the same text.
C19_RoundTripOfBareText ==
    (OptionsParsed
         /\ \A n \in 1..Len(results[FALSE].options) :
                results[FALSE].options[n].v.t = "str" =>
                    IsBareText(results[FALSE].options[n].v))
        => RoundTrips(results[FALSE])

\* a file name, a float written with a trailing zero and a mixed vector
C19_Witness ==
    /\ OptionsParsed
    /\ cmd = "gmx editconf -s 'a.tpr' -v 2.50 -box ( -1.5e1 7 0.25 )"
    /\ render(results[FALSE]) = "gmx editconf -s a.tpr -v 2.5 -box (-15.0 7 0.25)"

(***************************************************************************)
(* Properties of option values the lexer splits (SpecWords)                *)
(***************************************************************************)
EndsWith(s, suffix) ==
    Len(s) >= Len(suffix) /\ SubSeq(s, Len(s) - Len(suffix) + 1, Len(s)) = suffix

\* cmd ends with the option "flag word"
LastOptionIs(flag, word) == EndsWith(cmd, " " \o flag \o " " \o word)

\* the options of WordTexts and LastWordTexts whose value holds a hyphen
\* and a letter
HyphenOptions ==
    {[flag |-> "-ff", word |-> "amber99sb-ildn"],
     [flag |-> "-f", word |-> "em-min.pdb"],
     [flag |-> "-o", word |-> "em-p"],
     [flag |-> "-p", word |-> "em-p"],
     [flag |-> "-o", word |-> "energy-min"],
     [flag |-> "-o", word |-> "gmx-x"]}

\* position of the first hyphen of w that a letter follows
HyphenIndex(w) ==
    CHOOSE i \in 1..Len(w) :
        /\ DashLetterAt(w, i)
        /\ \A j \in 1..(i - 1) : ~DashLetterAt(w, j)

BeforeHyphen(w) == SubSeq(w, 1, HyphenIndex(w) - 1)
FromHyphen(w) == SubSeq(w, HyphenIndex(w), Len(w))

\* w is an identifier, a hyphen, a letter and letters or digits to its end
IsIdentHyphenWord(w) ==
    /\ Ch(w, 1) \in IdentStart
    /\ RunLen(w, 1, IdentChar) = HyphenIndex(w) - 1
    /\ HyphenIndex(w) + 1 + RunLen(w, HyphenIndex(w) + 2, Alnum) = Len(w)

\* w is a name of letters, digits, underscores, slashes and hyphens that
\* does not begin with a hyphen, a dot and a whitelisted extension
IsFileName(w) ==
    /\ Ch(w, 1) \in FileChar \ {"-"}
    /\ Ch(w, RunLen(w, 1, FileChar) + 1) = "."
    /\ SubSeq(w, RunLen(w, 1, FileChar) + 2, Len(w)) \in Extensions

\* the token of a bare identifier: Keyword for gmx, CommandName for one of
\* the 23 names, else a string
WordToken(text) == Tok(ClassOfLexeme(text), PyStr(text))

\* the command string has been parsed with validation
WordsCalled == pc = "o_parsed" /\ results[TRUE] # NotCalled

\* the command string has been parsed with validation and is a sentence of
\* the grammar
WordsParsed == WordsCalled /\ IsSentence(TypesOf(tokenize(cmd)))

WarningSet(r) == {r.validation.warnings[i] : i \in 1..Len(r.validation.warnings)}

\* the last option of cmd, flag and word, was tokenized as the flag, a
\* string and a second flag, and parsed as two entries of the option map
SplitInTwo(flag, word, r) ==
    /\ LastN(tokenize(cmd), 3) =
           <<Tok("FLAG", PyStr(flag)), Tok("STRING", PyStr(BeforeHyphen(word))),
             Tok("FLAG", PyStr(FromHyphen(word)))>>
    /\ IsParsedCommand(r)
    /\ FromHyphen(word) \in DictKeys(r.options)
    /\ DictGet(r.options, flag) = PyStr(BeforeHyphen(word))
    /\ DictGet(r.options, FromHyphen(word)) = PyTrue

\* C24 as stated: every bare option value with a hyphen and a letter is a
\* string and then a Flag, the option map holds the text before the hyphen
\* as the value and the rest as an extra flag with the value True, and for
\* a covered command the extra flag gets a flag-name warning
C24_HyphenSplitsValue ==
    WordsParsed =>
        \A h \in HyphenOptions :
            LastOptionIs(h.flag, h.word) =>
                \E r \in {results[TRUE]} :
                    /\ SplitInTwo(h.flag, h.word, r)
                    /\ r.command \in COMMAND_FLAGS_keys =>
                          FlagWarning(FromHyphen(h.word), r.command) \in WarningSet(r)

\* the last option of cmd, flag and an identifier-hyphen word, in a
\* sentence of the grammar: the map holds the second flag with the value
\* True and, unless the second flag is the option's own flag, the text
\* before the hyphen as the value of the option's flag; a covered command
\* gets the flag-name warning about the second flag exactly when it does
\* not list it
SplitAtHyphen(flag, word, r) ==
    /\ IsParsedCommand(r)
    /\ FromHyphen(word) \in DictKeys(r.options)
    /\ DictGet(r.options, FromHyphen(word)) = PyTrue
    /\ flag # FromHyphen(word) =>
          DictGet(r.options, flag) = PyStr(BeforeHyphen(word))
    /\ r.command \in COMMAND_FLAGS_keys =>
          (FlagWarning(FromHyphen(word), r.command) \in WarningSet(r)
           <=> FromHyphen(word) \notin COMMAND_FLAGS(r.command))

\* C24: as the last option of a command string, a bare value made of an
\* identifier, a hyphen, a letter and letters or digits (amber99sb-ildn) is
\* a string and then a Flag when the identifier is neither gmx nor a
\* command name; when the tokens before it are a Keyword, a CommandName
\* and well-formed options, the option map then holds
\* the rest as an extra flag with the value True and, unless the extra flag
\* is the option's own flag (-p em-p), the text before the hyphen as the
\* option's value, and a covered command gets a flag-name warning about the
\* extra flag exactly when it does not list it; when the identifier is gmx
\* or a command name (energy-min) it is a Keyword or CommandName token and
\* the string does not parse; a file name with a hyphen and a whitelisted
\* extension (em-min.pdb) stays one Filename value
C24_HyphenSplitsBareWord ==
    WordsCalled =>
        \A h \in HyphenOptions :
            LastOptionIs(h.flag, h.word) =>
                \E r \in {results[TRUE]} :
                    IF IsFileName(h.word)
                    THEN /\ LastN(tokenize(cmd), 2) =
                                <<Tok("FLAG", PyStr(h.flag)),
                                  Tok("FILENAME", PyStr(h.word))>>
                         /\ WordsParsed =>
                               /\ IsParsedCommand(r)
                               /\ DictGet(r.options, h.flag) = PyStr(h.word)
                    ELSE IF ClassOfLexeme(BeforeHyphen(h.word)) # "STRING"
                    THEN /\ IsIdentHyphenWord(h.word)
                         /\ LastN(tokenize(cmd), 3) =
                                <<Tok("FLAG", PyStr(h.flag)),
                                  WordToken(BeforeHyphen(h.word)),
                                  Tok("FLAG", PyStr(FromHyphen(h.word)))>>
                         /\ r = None
                    ELSE /\ IsIdentHyphenWord(h.word)
                         /\ LastN(tokenize(cmd), 3) =
                                <<Tok("FLAG", PyStr(h.flag)),
                                  Tok("STRING", PyStr(BeforeHyphen(h.word))),
                                  Tok("FLAG", PyStr(FromHyphen(h.word)))>>
                         /\ WordsParsed => SplitAtHyphen(h.flag, h.word, r)

\* "gmx pdb2gmx -ff amber99sb-ildn" has been parsed: two options and the
\* warning about '-ildn'
C24_Witness ==
    /\ pc = "o_parsed"
    /\ cmd = "gmx pdb2gmx -ff amber99sb-ildn"
    /\ IsParsedCommand(results[TRUE])
    /\ results[TRUE].options = <<[k |-> "-ff", v |-> PyStr("amber99sb")],
                                 [k |-> "-ildn", v |-> PyTrue]>>
    /\ FlagWarning("-ildn", "pdb2gmx") \in WarningSet(results[TRUE])

\* the options of WordTexts whose value is a bare command name
CommandValueOptions == {[flag |-> "-deffnm", word |-> "energy"]}

\* C29: a command string with an option whose value is the bare word gmx
\* or a command name does not parse
C29_CommandNameValueFails ==
    (pc = "o_parsed" /\ results[TRUE] # NotCalled) =>
        \A h \in CommandValueOptions :
            (h.word \in commands \cup {"gmx"}
                /\ StrContains(cmd, " " \o h.flag \o " " \o h.word))
            => results[TRUE] = None

\* the options of WordTexts and LastWordTexts whose value is file-like: a
\* name, a dot and letters
FileLikeOptions ==
    {[flag |-> "-o", word |-> "notes.txt"],
     [flag |-> "-o", word |-> "out.group"],
     [flag |-> "-o", word |-> "out.gro"],
     [flag |-> "-o", word |-> "my-notes.txt"],
     [flag |-> "-o", word |-> "rms.txt"],
     [flag |-> "-o", word |-> "notes.rms"],
     [flag |-> "-o", word |-> "out.grorms"]}

DotIndex(w) == CHOOSE i \in 1..Len(w) : Ch(w, i) = "."
BeforeDot(w) == SubSeq(w, 1, DotIndex(w) - 1)
AfterDot(w) == SubSeq(w, DotIndex(w) + 1, Len(w))

\* the tokens a file-like word stands for by the claim: one Filename when
\* the text after the dot is a whitelisted extension; when it begins with
\* one, the Filename up to the extension and the rest as a string; else the
\* name and the text after the dot as two strings
FileLikeTokens(w) ==
    IF AfterDot(w) \in Extensions
    THEN <<Tok("FILENAME", PyStr(w))>>
    ELSE IF Len(AfterDot(w)) > 3 /\ SubSeq(AfterDot(w), 1, 3) \in Extensions
    THEN <<Tok("FILENAME", PyStr(SubSeq(w, 1, DotIndex(w) + 3))),
           Tok("STRING", PyStr(SubSeq(w, DotIndex(w) + 4, Len(w))))>>
    ELSE <<Tok("STRING", PyStr(BeforeDot(w))), Tok("STRING", PyStr(AfterDot(w)))>>

IsIdentDotWord(w) ==
    /\ Ch(w, 1) \in IdentStart
    /\ RunLen(w, 1, IdentChar) = DotIndex(w) - 1
    /\ BeforeDot(w) # "gmx"
    /\ Len(w) > DotIndex(w)
    /\ DotIndex(w) + RunLen(w, DotIndex(w) + 1, Letter) = Len(w)

\* the tokens of an identifier-dot word: one Filename when the letters
\* after the dot are a whitelisted extension; when they begin with one, the
\* Filename up to the extension and the token of the remaining letters;
\* else the token of the identifier and the token of the letters
IdentDotTokens(w) ==
    IF AfterDot(w) \in Extensions
    THEN <<Tok("FILENAME", PyStr(w))>>
    ELSE IF Len(AfterDot(w)) > 3 /\ SubSeq(AfterDot(w), 1, 3) \in Extensions
    THEN <<Tok("FILENAME", PyStr(SubSeq(w, 1, DotIndex(w) + 3))),
           WordToken(SubSeq(w, DotIndex(w) + 4, Len(w)))>>
    ELSE <<WordToken(BeforeDot(w)), WordToken(AfterDot(w))>>

RECURSIVE Values(_)
Values(items) == IF items = <<>> THEN <<>> ELSE <<Head(items).v>> \o Values(Tail(items))

\* C4: every list reported as successfully generated has passed both
\* validators: each command parsed and passed the command validator, and
\* validate_gromacs_sequence returned passed = true for the list.
C4_BothValidatorsPassed ==
    (pc = "l_done" /\ ~IsRaised(outcome) /\ outcome.success) =>
        /\ \A i \in 1..Len(outcome.commands) :
               /\ outcome.commands[i].t = "str"
               /\ \E r \in {parse_gromacs_command(outcome.commands[i].v, TRUE)} :
                      IsParsedCommand(r) /\ r.validation.valid
        /\ SeqPassed(validate_gromacs_sequence(Values(outcome.commands)))

\* the item is a string that parses, is valid and has no warning
IsClean(item) ==
    /\ item.t = "str"
    /\ \E r \in {parse_gromacs_command(item.v, TRUE)} :
          /\ IsParsedCommand(r)
          /\ r.validation.valid
          /\ r.validation.warnings = <<>>

\* the items the model may hand back that are clean commands
CleanItems == UNION {IF IsClean(item) THEN {item} ELSE {} : item \in GeneratedItems}

IsCleanCommand(item) == item \in CleanItems

\* C25: an attempt is accepted only if every item of the generated list is
\* a string that parses, is valid and has no warning; the final list holds
\* no command with a warning, it stays empty as long as no attempt has been
\* accepted, whatever rejected attempts had collected, and on acceptance it
\* is the whole generated list of the accepted attempt, in its order
C25_AcceptedOnlyIfAllClean ==
    /\ \A i \in 1..Len(final_generated_commands) :
          IsCleanCommand(final_generated_commands[i])
    /\ ~all_commands_valid => final_generated_commands = <<>>
    /\ all_commands_valid =>
          /\ final_generated_commands = generated_cmds_list
          /\ \A i \in 1..Len(generated_cmds_list) :
                IsCleanCommand(generated_cmds_list[i])
    /\ (pc = "l_done" /\ ~IsRaised(outcome) /\ outcome.success) =>
          outcome.commands = generated_cmds_list

\* the second attempt has been accepted after a first one that had
\* collected a clean command next to one with warnings
C25_Witness ==
    /\ pc = "l_done"
    /\ retry_count = 1
    /\ Len(feedback_history) = 1
    /\ StrContains(feedback_history[1], "'gmx mdrun -zz' validation issues")
    /\ outcome = [success |-> TRUE,
                  commands |-> <<PyStr("gmx mdrun -deffnm a"),
                                 PyStr("gmx mdrun -deffnm a")>>]

\* the loop has ended as the claim says it ends: after one model call for
\* each rejected attempt and one for the accepted attempt, the first one
\* accepted, or after MAX_RETRIES rejected attempts with the failure outcome
\* and no final command
EndedAsClaimed ==
    /\ ~IsRaised(outcome)
    /\ model_calls >= 1
    /\ IF outcome.success
       THEN /\ all_commands_valid
            /\ model_calls = retry_count + 1
       ELSE /\ ~all_commands_valid
            /\ retry_count = MAX_RETRIES - 1
            /\ model_calls = MAX_RETRIES
            /\ final_generated_commands = <<>>

\* C26: the loop ends after at most 3 attempts with one model call per
\* attempt: no model call is made or pending once an attempt has been
\* accepted, and the loop ends either at the first accepted attempt or,
\* with all 3 attempts rejected, in the failure outcome with an empty final
\* list
C26_EndsWithinThreeAttempts ==
    /\ model_calls <= MAX_RETRIES
    /\ all_commands_valid => pc \in {"l_report", "l_done"}
    /\ pc = "l_done" => EndedAsClaimed

\* the model has answered the latest call with an empty list
EmptyAnswer == model_calls >= 1 /\ generated_cmds_list = <<>>

\* C27: an attempt in which the model returns an empty list is accepted:
\* nothing is held against it, no further attempt follows it, and the run
\* ends in the success outcome with an empty final list
C27_EmptyListAccepted ==
    EmptyAnswer =>
        /\ current_attempt_valid
        /\ current_attempt_feedback = <<>>
        /\ pc # "l_attempt"
        /\ pc \in {"l_report", "l_done"} =>
              /\ all_commands_valid
              /\ final_generated_commands = <<>>
              /\ model_calls = retry_count + 1
        /\ pc = "l_done" => outcome = [success |-> TRUE, commands |-> <<>>]

\* the run has ended with success on the empty list the model returned at
\* the second attempt
C27_Witness ==
    /\ pc = "l_done"
    /\ EmptyAnswer
    /\ model_calls = 2
    /\ retry_count = 1
    /\ outcome = [success |-> TRUE, commands |-> <<>>]

IsPrefix(p, q) == Len(p) <= Len(q) /\ SubSeq(q, 1, Len(p)) = p

\* the items of a generated list that are not clean commands, in order
Offenders(items) == SelectSeq(items, LAMBDA item : ~IsCleanCommand(item))

\* fbs holds one feedback item for each offending item of items, in order,
\* each naming its command
OneItemPerOffender(fbs, items) ==
    /\ Len(fbs) = Len(Offenders(items))
    /\ \A j \in 1..Len(fbs) :
          StrContains(fbs[j], "Command '" \o FormatItem(Offenders(items)[j]) \o "' ")

RECURSIVE PromptFeedback(_)
\* the feedback part of a prompt that carries the items fbs, in order
PromptFeedback(fbs) ==
    IF fbs = <<>> THEN "" ELSE "- " \o Head(fbs) \o "\n" \o PromptFeedback(Tail(fbs))

\* the prompt of the attempt under way carries the whole history, and no
\* feedback when nothing has been rejected yet
PromptCarriesHistory ==
    pc = "l_check" =>
        /\ feedback_history = <<>> => current_task_template = BaseTaskTemplate
        /\ model_calls = 1 => current_task_template = BaseTaskTemplate
        /\ feedback_history # <<>> =>
              current_task_template =
                  BaseTaskTemplate \o FeedbackHeader \o PromptFeedback(feedback_history)
        /\ OneItemPerOffender(current_attempt_feedback,
                              SubSeq(generated_cmds_list, 1, cmd_idx))

\* a step keeps the history as a prefix of the new one, and the step that
\* rejects an attempt appends one item for each offending command of it
HistoryGrows ==
    /\ IsPrefix(feedback_history, feedback_history')
    /\ feedback_history' # feedback_history =>
          /\ pc = "l_check" /\ pc' # "l_check" /\ ~all_commands_valid'
          /\ OneItemPerOffender(SubSeq(feedback_history', Len(feedback_history) + 1,
                                       Len(feedback_history')),
                                generated_cmds_list)
    /\ (pc = "l_check" /\ pc' # "l_check" /\ ~all_commands_valid') =>
          Len(feedback_history') > Len(feedback_history)

\* C28: the feedback history only grows: the first prompt carries no
\* feedback, each rejected attempt appends its feedback items, one for each
\* offending command in order, nothing is ever removed or reordered, and
\* the prompt of every attempt carries the items of all attempts before it,
\* in order
C28_FeedbackOnlyGrows == []PromptCarriesHistory /\ [][HistoryGrows]_vars

\* the third attempt is under way with a prompt that carries two items of
\* the first attempt and one of the second
C28_Witness ==
    /\ pc = "l_check"
    /\ model_calls = 3
    /\ Len(feedback_history) = 3
    /\ StrContains(feedback_history[1], "'gmx foo' failed parsing")
    /\ StrContains(feedback_history[2], "'5' is not a string")
    /\ StrContains(feedback_history[3], "'gmx mdrun -zz' validation issues")
    /\ current_task_template =
           BaseTaskTemplate \o FeedbackHeader \o "- " \o feedback_history[1] \o "\n"
           \o "- " \o feedback_history[2] \o "\n- " \o feedback_history[3] \o "\n"

====
